---- MODULE Spec2Model ----
(***************************************************************************)
(* A model of jumprope-rs: a skip list of fixed-capacity gap buffers       *)
(* (src/src/jumprope.rs, src/src/gapbuffer.rs), its string index helpers   *)
(* (src/src/fast_str_tools.rs, src/src/utils.rs), its iterators            *)
(* (src/src/iter.rs) and the write-coalescing wrapper                      *)
(* (src/src/buffered.rs).                                                  *)
(*                                                                         *)
(* Strings are sequences of UTF-8 bytes (integers 0..255).  Byte offsets   *)
(* are 0-based as in the source; byte i of a string s is s[i + 1].         *)
(* The model is the debug build with the wchar_conversion feature: the     *)
(* debug assertions are checked and gaps are zero-filled.  A panic is      *)
(* recorded as a non-empty `err`.                                          *)
(***************************************************************************)
EXTENDS Integers, Sequences, FiniteSets, TLC

(***************************************************************************)
(* Scaled parameters.  NODE_STR_SIZE is 10 in debug builds and 392 in      *)
(* release builds (jumprope.rs:36-39); GapBuffer is generic in its         *)
(* capacity and its own tests use 5 (gapbuffer.rs:394).  The model uses 4, *)
(* the smallest capacity that holds every scalar.  MAX_HEIGHT is 20 in the *)
(* source (jumprope.rs:42); the model uses 2.                              *)
(***************************************************************************)
NODE_STR_SIZE == 4
MAX_HEIGHT == 2

\* The number of public operations applied to a rope.
MaxOps == 3

NULL == 0 - 1
NoErr == ""

Min(a, b) == IF a < b THEN a ELSE b

(***************************************************************************)
(* Bytes and strings                                                       *)
(***************************************************************************)

\* (byte & 0xC0) != 0x80 : the byte starts a scalar.
IsStartByte(b) == (b \div 64) # 2

\* (byte & 0xf0) == 0xf0 : the lead byte of a 4-byte scalar.
IsSurrogateLead(b) == (b \div 16) = 15

\* The bytes of s in the 0-based half-open range a..b.
Slice(s, a, b) == SubSeq(s, a + 1, b)

\* s.is_char_boundary(i)
is_char_boundary(s, i) ==
    \/ i = 0
    \/ i = Len(s)
    \/ i > 0 /\ i < Len(s) /\ IsStartByte(s[i + 1])

\* Number of bytes of the scalar that starts with lead byte b; 0 if b is no lead byte.
Utf8Width(b) ==
    IF b < 128 THEN 1
    ELSE IF b < 192 THEN 0
    ELSE IF b < 224 THEN 2
    ELSE IF b < 240 THEN 3
    ELSE IF b < 248 THEN 4
    ELSE 0

\* std::str::from_utf8(arr).is_ok(), for the scalars the model draws from.
RECURSIVE ValidUtf8From(_, _)
ValidUtf8From(s, i) ==
    IF i >= Len(s) THEN TRUE
    ELSE LET w == Utf8Width(s[i + 1]) IN
         /\ w > 0
         /\ i + w <= Len(s)
         /\ \A k \in 1..(w - 1) : ~IsStartByte(s[i + 1 + k])
         /\ ValidUtf8From(s, i + w)

ValidUtf8(s) == ValidUtf8From(s, 0)

count_chars_in_bytes(text) ==
    Cardinality({i \in 1..Len(text) : IsStartByte(text[i])})

count_chars(text) == count_chars_in_bytes(text)

\* A surrogate count that takes every multi-byte lead byte for a 4-byte one.
count_multibyte_leads(text) ==
    Cardinality({i \in 1..Len(text) : text[i] \div 64 = 3})

count_utf16_surrogates_in_bytes(text) ==
    Cardinality({i \in 1..Len(text) : IsSurrogateLead(text[i])})

count_utf16_surrogates(text) == count_utf16_surrogates_in_bytes(text)

\* The counting loop of char_to_byte_idx: <<bytes consumed, scalars counted>>.
RECURSIVE char_to_byte_loop(_, _, _, _)
char_to_byte_loop(text, char_idx, i, char_count) ==
    IF i < Len(text) /\ char_count <= char_idx
    THEN char_to_byte_loop(text, char_idx, i + 1,
            char_count + (IF IsStartByte(text[i + 1]) THEN 1 ELSE 0))
    ELSE <<i, char_count>>

char_to_byte_idx(text, char_idx) ==
    LET r == char_to_byte_loop(text, char_idx, 0, 0)
        byte_count == r[1]
        char_count == r[2]
    IN IF byte_count = Len(text) /\ char_count <= char_idx
       THEN byte_count
       ELSE byte_count - 1

str_chars_to_bytes(s, char_pos) == char_to_byte_idx(s, char_pos)

\* The backwards scan of str_chars_to_bytes_rev; -1 stands for its panic.
RECURSIVE chars_to_bytes_rev_loop(_, _, _)
chars_to_bytes_rev_loop(s, i, chars_remaining) ==
    IF i >= Len(s) THEN 0 - 1
    ELSE IF IsStartByte(s[Len(s) - i])
         THEN IF chars_remaining - 1 = 0 THEN i + 1
              ELSE chars_to_bytes_rev_loop(s, i + 1, chars_remaining - 1)
         ELSE chars_to_bytes_rev_loop(s, i + 1, chars_remaining)

str_chars_to_bytes_rev(s, char_len) ==
    IF char_len = 0 THEN 0 ELSE chars_to_bytes_rev_loop(s, 0, char_len)

\* The loop of utf16_code_unit_to_char_idx over text.chars(): i is the byte
\* index of the next scalar, whose len_utf16() is 2 when it takes 4 bytes.
RECURSIVE utf16_idx_loop(_, _, _, _, _)
utf16_idx_loop(text, utf16_idx, i, char_i, utf16_i) ==
    IF i >= Len(text) \/ utf16_idx <= utf16_i
    THEN IF utf16_idx < utf16_i THEN char_i - 1 ELSE char_i
    ELSE utf16_idx_loop(text, utf16_idx, i + Utf8Width(text[i + 1]), char_i + 1,
                        utf16_i + (IF IsSurrogateLead(text[i + 1]) THEN 2 ELSE 1))

utf16_code_unit_to_char_idx(text, utf16_idx) ==
    utf16_idx_loop(text, utf16_idx, 0, 0, 0)

(***************************************************************************)
(* GapBuffer<NODE_STR_SIZE>                                                *)
(***************************************************************************)

ZeroData == [i \in 1..NODE_STR_SIZE |-> 0]

GapBuffer_new ==
    [data |-> ZeroData,
     gap_start_bytes |-> 0,
     gap_start_chars |-> 0,
     gap_start_surrogate_pairs |-> 0,
     gap_len |-> NODE_STR_SIZE,
     all_ascii |-> TRUE]

\* The result of a gap buffer operation: the buffer, a return value, a panic.
GbOk(g, r) == [str |-> g, ret |-> r, err |-> NoErr]
GbErr(g, e) == [str |-> g, ret |-> 0, err |-> e]

len_bytes_gb(g) == NODE_STR_SIZE - g.gap_len

is_empty_gb(g) == g.gap_len = NODE_STR_SIZE

start_bytes(g) == Slice(g.data, 0, g.gap_start_bytes)

end_bytes(g) == Slice(g.data, g.gap_start_bytes + g.gap_len, NODE_STR_SIZE)

\* start_as_str / end_as_str unwrap from_utf8 in debug builds.
start_as_str_ok(g) == ValidUtf8(start_bytes(g))
end_as_str_ok(g) == ValidUtf8(end_bytes(g))

count_internal_chars(g, s) == IF g.all_ascii THEN Len(s) ELSE count_chars(s)

int_count_surrogate_pairs(g, s) ==
    IF g.all_ascii THEN 0 ELSE count_utf16_surrogates(s)

int_str_get_byte_offset(g, s, char_pos) ==
    IF g.all_ascii THEN char_pos ELSE char_to_byte_idx(s, char_pos)

\* int_chars_to_bytes_backwards that takes every scalar for one byte.
int_chars_to_bytes_backwards_ascii(g, s, char_len) == char_len

int_chars_to_bytes_backwards(g, s, char_len) ==
    IF g.all_ascii THEN char_len ELSE str_chars_to_bytes_rev(s, char_len)

\* data.copy_within(a..b, dest)
copy_within(data, a, b, dest) ==
    [i \in 1..Len(data) |->
        IF i - 1 >= dest /\ i - 1 < dest + (b - a)
        THEN data[a + (i - 1 - dest) + 1]
        ELSE data[i]]

\* data[a..b].fill(0)
fill_zero(data, a, b) ==
    [i \in 1..Len(data) |-> IF i - 1 >= a /\ i - 1 < b THEN 0 ELSE data[i]]

\* data[start..start+len].copy_from_slice(s)
copy_from_slice(data, start, s) ==
    [i \in 1..Len(data) |->
        IF i - 1 >= start /\ i - 1 < start + Len(s)
        THEN s[i - start]
        ELSE data[i]]

\* move_gap that leaves the gap where it is.
move_gap_stays(g, new_start_bytes) == GbOk(g, 0)

move_gap(g, new_start_bytes) ==
    LET current_start == g.gap_start_bytes
        len == g.gap_len
    IN
    IF new_start_bytes = current_start THEN GbOk(g, 0)
    ELSE IF new_start_bytes > NODE_STR_SIZE - len
    THEN GbErr(g, "move_gap: new_start_bytes > len_bytes")
    ELSE IF new_start_bytes < current_start
    THEN LET s == Slice(g.data, new_start_bytes, current_start)
             char_len == count_internal_chars(g, s)
             surrogate_pairs == int_count_surrogate_pairs(g, s)
             moved == copy_within(g.data, new_start_bytes, current_start,
                                  new_start_bytes + len)
         IN IF ~ValidUtf8(s) THEN GbErr(g, "move_gap: invalid utf8")
            ELSE GbOk([g EXCEPT
                    !.gap_start_surrogate_pairs = @ - surrogate_pairs,
                    !.gap_start_chars = @ - char_len,
                    !.data = fill_zero(moved, new_start_bytes, new_start_bytes + len),
                    !.gap_start_bytes = new_start_bytes], 0)
    ELSE LET s == Slice(g.data, current_start + len, new_start_bytes + len)
             char_len == count_internal_chars(g, s)
             surrogate_pairs == int_count_surrogate_pairs(g, s)
             moved == copy_within(g.data, current_start + len,
                                  new_start_bytes + len, current_start)
         IN IF ~ValidUtf8(s) THEN GbErr(g, "move_gap: invalid utf8")
            ELSE GbOk([g EXCEPT
                    !.gap_start_surrogate_pairs = @ + surrogate_pairs,
                    !.gap_start_chars = @ + char_len,
                    !.data = fill_zero(moved, new_start_bytes, new_start_bytes + len),
                    !.gap_start_bytes = new_start_bytes], 0)

\* insert_in_gap that does not count the surrogate pairs of the text.
insert_in_gap_pairs_uncounted(g, s) ==
    IF Len(s) > g.gap_len THEN GbErr(g, "insert_in_gap: no room")
    ELSE GbOk([g EXCEPT
            !.data = copy_from_slice(@, g.gap_start_bytes, s),
            !.gap_start_bytes = @ + Len(s),
            !.gap_start_chars = @ + count_chars(s),
            !.gap_len = @ - Len(s),
            !.all_ascii = IF Len(s) # count_chars(s) THEN FALSE ELSE @], 0)

insert_in_gap(g, s) ==
    LET len == Len(s)
        char_len == count_chars(s)
        start == g.gap_start_bytes
    IN IF len > g.gap_len THEN GbErr(g, "insert_in_gap: no room")
       ELSE GbOk([g EXCEPT
               !.data = copy_from_slice(@, start, s),
               !.gap_start_bytes = @ + len,
               !.gap_start_chars = @ + char_len,
               !.gap_len = @ - len,
               !.gap_start_surrogate_pairs =
                    IF len # char_len THEN @ + count_utf16_surrogates(s) ELSE @,
               !.all_ascii = IF len # char_len THEN FALSE ELSE @], 0)

\* Err(()) of try_insert is reported as err "no space"; its callers unwrap it.
try_insert_moved(moved, s) ==
    IF moved.err # NoErr THEN moved ELSE insert_in_gap(moved.str, s)

try_insert(g, byte_pos, s) ==
    IF Len(s) > g.gap_len THEN GbErr(g, "try_insert: no space")
    ELSE try_insert_moved(move_gap(g, byte_pos), s)

new_from_str(s) == try_insert(GapBuffer_new, 0, s)

remove_at_gap(g, del_bytes) ==
    [g EXCEPT
        !.data = fill_zero(@, g.gap_start_bytes + g.gap_len,
                           g.gap_start_bytes + g.gap_len + del_bytes),
        !.gap_len = @ + del_bytes]

\* remove_chars after move_gap: nothing is removed yet.
remove_chars_moved(moved, del_len) ==
    [str |-> moved.str, ret |-> 0, del_len |-> del_len, err |-> moved.err]

\* The first half of remove_chars: the part of the range that lies before the
\* gap is dropped by widening the gap to the left; otherwise the gap is moved
\* to pos.  `del_len` is what is left to remove behind the gap.
remove_chars_front(g, pos, del_len) ==
    LET gap_chars == g.gap_start_chars
        gap_start_bytes == g.gap_start_bytes
    IN
    IF pos <= gap_chars /\ pos + del_len >= gap_chars
    THEN IF pos < gap_chars
         THEN LET rm_start_bytes ==
                      int_chars_to_bytes_backwards(g, start_bytes(g), gap_chars - pos)
                  pairs == IF g.all_ascii THEN 0
                           ELSE count_utf16_surrogates_in_bytes(
                                    Slice(g.data, gap_start_bytes - rm_start_bytes,
                                          gap_start_bytes))
              IN IF ~start_as_str_ok(g)
                 THEN [str |-> g, ret |-> 0, del_len |-> del_len,
                       err |-> "remove_chars: invalid utf8"]
                 ELSE IF rm_start_bytes < 0 \/ rm_start_bytes > gap_start_bytes
                 THEN [str |-> g, ret |-> 0, del_len |-> del_len,
                       err |-> "Insufficient characters in string"]
                 ELSE [str |-> [g EXCEPT
                                  !.gap_start_surrogate_pairs = @ - pairs,
                                  !.gap_len = @ + rm_start_bytes,
                                  !.gap_start_chars = pos,
                                  !.gap_start_bytes = @ - rm_start_bytes],
                       ret |-> rm_start_bytes,
                       del_len |-> del_len - (gap_chars - pos),
                       err |-> NoErr]
         ELSE [str |-> g, ret |-> 0, del_len |-> del_len, err |-> NoErr]
    ELSE LET gap_bytes ==
                 IF pos < gap_chars
                 THEN int_str_get_byte_offset(g, start_bytes(g), pos)
                 ELSE int_str_get_byte_offset(g, end_bytes(g), pos - gap_chars)
                          + g.gap_start_bytes
         IN remove_chars_moved(move_gap(g, gap_bytes), del_len)

\* The end of remove_chars: rm_end_bytes bytes go from behind the gap.
remove_chars_end(f, rm_end_bytes) ==
    IF rm_end_bytes > Len(end_bytes(f.str))
    THEN GbErr(f.str, "remove_at_gap: out of range")
    ELSE GbOk(remove_at_gap(f.str, rm_end_bytes), f.ret + rm_end_bytes)

\* The second half of remove_chars: f is what the first half left.
remove_chars_back(f, pos) ==
    IF f.err # NoErr THEN GbErr(f.str, f.err)
    ELSE IF f.del_len = 0 THEN GbOk(f.str, f.ret)
    ELSE IF pos < f.str.gap_start_chars
    THEN GbErr(f.str, "remove_chars: pos < gap_start_chars")
    ELSE IF ~end_as_str_ok(f.str)
    THEN GbErr(f.str, "remove_chars: invalid utf8")
    ELSE remove_chars_end(f, int_str_get_byte_offset(f.str, end_bytes(f.str), f.del_len))

\* Returns the number of bytes removed.
remove_chars(g, pos, del_len) ==
    IF del_len = 0 THEN GbOk(g, 0)
    ELSE IF del_len > len_bytes_gb(g) - pos
    THEN GbErr(g, "remove_chars: del_len > len_bytes - pos")
    ELSE remove_chars_back(remove_chars_front(g, pos, del_len), pos)

\* count_bytes that takes every scalar for one byte.
count_bytes_ascii(g, char_pos) == char_pos

count_bytes(g, char_pos) ==
    IF g.all_ascii THEN char_pos
    ELSE LET gap_chars == g.gap_start_chars
             gap_bytes == g.gap_start_bytes
         IN IF char_pos = gap_chars THEN gap_bytes
            ELSE IF char_pos < gap_chars
            THEN int_str_get_byte_offset(g, start_bytes(g), char_pos)
            ELSE gap_bytes + int_str_get_byte_offset(g, end_bytes(g), char_pos - gap_chars)

\* Number of surrogate pairs in the first char_pos scalars of the buffer.
count_surrogate_pairs(g, char_pos) ==
    IF g.all_ascii THEN 0
    ELSE LET gap_chars == g.gap_start_chars
         IN IF char_pos = gap_chars THEN g.gap_start_surrogate_pairs
            ELSE IF char_pos < gap_chars
            THEN IF g.gap_start_surrogate_pairs = 0 THEN 0
                 ELSE LET bytes == int_str_get_byte_offset(g, start_bytes(g), char_pos)
                      IN count_utf16_surrogates_in_bytes(Slice(g.data, 0, bytes))
            ELSE LET bytes == int_str_get_byte_offset(g, end_bytes(g), char_pos - gap_chars)
                     base == g.gap_start_bytes + g.gap_len
                 IN g.gap_start_surrogate_pairs
                      + count_utf16_surrogates_in_bytes(Slice(g.data, base, base + bytes))

\* count_chars_in_wchars that takes every scalar for one UTF-16 unit.
count_chars_in_wchars_bmp(g, wchar_pos) == wchar_pos

\* Number of scalars in the first wchar_pos UTF-16 units of the buffer.
count_chars_in_wchars(g, wchar_pos) ==
    IF g.all_ascii THEN wchar_pos
    ELSE LET gap_chars == g.gap_start_chars
             gap_pairs == g.gap_start_surrogate_pairs
             gap_wchars == gap_chars + gap_pairs
         IN IF wchar_pos = gap_wchars THEN gap_chars
            ELSE IF wchar_pos < gap_wchars
            THEN IF g.gap_start_surrogate_pairs = 0 THEN wchar_pos
                 ELSE utf16_code_unit_to_char_idx(start_bytes(g), wchar_pos)
            ELSE gap_chars
                   + utf16_code_unit_to_char_idx(end_bytes(g), wchar_pos - gap_wchars)

\* take_rest: the suffix is returned and the gap extended over it; the bytes
\* are left in place.
take_rest(g) ==
    LET last_idx == g.gap_start_bytes + g.gap_len
    IN GbOk([g EXCEPT !.gap_len = NODE_STR_SIZE - g.gap_start_bytes],
            Slice(g.data, last_idx, NODE_STR_SIZE))

\* GapBuffer::check
check_gb(g) ==
    /\ start_as_str_ok(g)
    /\ count_chars(start_bytes(g)) = g.gap_start_chars
    /\ count_utf16_surrogates(start_bytes(g)) = g.gap_start_surrogate_pairs
    /\ g.all_ascii => /\ g.gap_start_bytes = g.gap_start_chars
                      /\ g.gap_start_surrogate_pairs = 0

(***************************************************************************)
(* Nodes, skip entries and the rope                                        *)
(*                                                                         *)
(* `nodes` is the memory: it maps the address of every live node to the    *)
(* node.  A rope is [head, num_bytes, nodes]: the address of its inline    *)
(* head node, its byte counter and the memory it lives in; NULL is the     *)
(* null pointer.  While an operation runs, the machine state m holds the   *)
(* rope's fields, the cursor, the heights random_height will return (drawn *)
(* by the caller), the set of nodes freed so far, and the panic.           *)
(***************************************************************************)

SkipEntry_new == [node |-> NULL, skip_chars |-> 0, skip_pairs |-> 0]

Entry(n, c, p) == [node |-> n, skip_chars |-> c, skip_pairs |-> p]

Levels == 0..MAX_HEIGHT

\* Node::new_with_height; a content longer than the capacity makes
\* new_from_str's unwrap panic, which the caller reports.
new_with_height(height, content) ==
    [str |-> new_from_str(content).str,
     height |-> height,
     nexts |-> [i \in Levels |-> SkipEntry_new]]

num_chars(node) == node.nexts[0].skip_chars

num_surrogate_pairs(node) == node.nexts[0].skip_pairs

\* An address that is not live in `nodes` and not in `freed`.
FreshAddr(nodes, freed) ==
    CHOOSE i \in 0..(Cardinality(DOMAIN nodes) + Cardinality(freed)) :
        /\ i \notin DOMAIN nodes
        /\ i \notin freed
        /\ \A j \in 0..(i - 1) : j \in DOMAIN nodes \/ j \in freed

\* JumpRope::new_with_rng, placed in the memory `nodes`.
new_with_rng(nodes) ==
    LET h == FreshAddr(nodes, {})
    IN [head |-> h,
        num_bytes |-> 0,
        nodes |-> nodes @@ (h :> new_with_height(1, <<>>))]

head_of(rope) == rope.nodes[rope.head]

len_chars(rope) ==
    head_of(rope).nexts[head_of(rope).height - 1].skip_chars

len_wchars(rope) ==
    LET e == head_of(rope).nexts[head_of(rope).height - 1]
    IN e.skip_pairs + e.skip_chars

len_bytes(rope) == rope.num_bytes

is_empty(rope) == rope.num_bytes = 0

Machine(rope, cursor, heights) ==
    [head |-> rope.head,
     nodes |-> rope.nodes,
     num_bytes |-> rope.num_bytes,
     cursor |-> cursor,
     heights |-> heights,
     freed |-> {},
     err |-> NoErr]

Fail(m, e) == IF m.err # NoErr THEN m ELSE [m EXCEPT !.err = e]

RopeOf(m) == [head |-> m.head, num_bytes |-> m.num_bytes, nodes |-> m.nodes]

\* Box::into_raw(Box::new(..)): an address that is neither live nor was freed
\* during this operation.
FreshNode(m) == FreshAddr(m.nodes, m.freed)

(***************************************************************************)
(* Cursor construction                                                     *)
(***************************************************************************)

\* The walk of mut_cursor_at_char / old_cursor_at_char from node e at level
\* `height` with `offset` characters left to skip.
RECURSIVE cursor_walk(_, _, _, _, _, _, _)
cursor_walk(rope, stick_end, e, height, offset, surrogate_pairs, iter) ==
    LET en == rope.nodes[e]
        next == en.nexts[height]
        skip == next.skip_chars
    IN
    IF height >= en.height
    THEN [cursor |-> iter, offset |-> offset, err |-> "cursor: level out of bounds"]
    ELSE IF offset > skip \/ (~stick_end /\ offset = skip /\ next.node # NULL)
    THEN \* Go right.
         IF ~(e = rope.head \/ ~is_empty_gb(en.str))
         THEN [cursor |-> iter, offset |-> offset, err |-> "cursor: empty node"]
         ELSE IF next.node = NULL
         THEN [cursor |-> iter, offset |-> offset,
               err |-> "Internal constraint violation: Reached rope end prematurely"]
         ELSE IF next.node \notin DOMAIN rope.nodes
         THEN [cursor |-> iter, offset |-> offset, err |-> "cursor: dangling pointer"]
         ELSE cursor_walk(rope, stick_end, next.node, height, offset - skip,
                          surrogate_pairs + next.skip_pairs, iter)
    ELSE \* Record this and go down.
         LET iter1 == [iter EXCEPT ![height] = Entry(e, offset, surrogate_pairs)]
         IN IF height # 0
            THEN cursor_walk(rope, stick_end, e, height - 1, offset, surrogate_pairs, iter1)
            ELSE LET sp == surrogate_pairs + count_surrogate_pairs(en.str, offset)
                     iter2 == IF sp > 0
                              THEN [i \in Levels |->
                                      IF i < head_of(rope).height
                                      THEN [iter1[i] EXCEPT !.skip_pairs = sp - @]
                                      ELSE iter1[i]]
                              ELSE iter1
                 IN [cursor |-> iter2, offset |-> offset,
                     err |-> IF offset <= NODE_STR_SIZE THEN NoErr
                             ELSE "cursor: offset > NODE_STR_SIZE"]

\* cursor_at that walks as if stick_end were set, whatever was asked for.
cursor_at_always_sticky(rope, char_pos, stick_end, init) ==
    IF char_pos > len_chars(rope)
    THEN [cursor |-> init, offset |-> char_pos, err |-> "cursor: char_pos > len_chars"]
    ELSE cursor_walk(rope, TRUE, rope.head, head_of(rope).height - 1,
                     char_pos, 0, init)

\* cursor_at that walks as if stick_end were not set, whatever was asked for.
cursor_at_never_sticky(rope, char_pos, stick_end, init) ==
    IF char_pos > len_chars(rope)
    THEN [cursor |-> init, offset |-> char_pos, err |-> "cursor: char_pos > len_chars"]
    ELSE cursor_walk(rope, FALSE, rope.head, head_of(rope).height - 1,
                     char_pos, 0, init)

cursor_at(rope, char_pos, stick_end, init) ==
    IF char_pos > len_chars(rope)
    THEN [cursor |-> init, offset |-> char_pos, err |-> "cursor: char_pos > len_chars"]
    ELSE cursor_walk(rope, stick_end, rope.head, head_of(rope).height - 1,
                     char_pos, 0, init)

mut_cursor_at_char(rope, char_pos, stick_end) ==
    cursor_at(rope, char_pos, stick_end, [i \in Levels |-> Entry(rope.head, 0, 0)])

old_cursor_at_char(rope, char_pos, stick_end) ==
    cursor_at(rope, char_pos, stick_end, [i \in Levels |-> SkipEntry_new])

\* The end of cursor_at_wchar's walk: char_pos is the position in the rope;
\* every entry below the head's height is turned into offsets from its node.
wchar_walk_end(rope, offset, char_pos, iter) ==
    [cursor |-> [i \in Levels |->
                    IF i < head_of(rope).height
                    THEN Entry(iter[i].node, char_pos - iter[i].skip_chars,
                               iter[i].skip_pairs - (char_pos - iter[i].skip_chars))
                    ELSE iter[i]],
     offset |-> offset,
     err |-> IF \E i \in Levels : /\ i < head_of(rope).height
                                  /\ iter[i].skip_pairs < char_pos - iter[i].skip_chars
             THEN "cursor_at_wchar: attempt to subtract with overflow"
             ELSE IF offset > NODE_STR_SIZE THEN "cursor: offset > NODE_STR_SIZE"
             ELSE NoErr]

\* The walk of cursor_at_wchar from node e at level `height` with `offset`
\* UTF-16 units left to skip, char_pos scalars from the start of the rope.
RECURSIVE wchar_walk(_, _, _, _, _, _, _)
wchar_walk(rope, stick_end, e, height, offset, char_pos, iter) ==
    LET en == rope.nodes[e]
        next == en.nexts[height]
        skip == next.skip_chars + next.skip_pairs
    IN
    IF height >= en.height
    THEN [cursor |-> iter, offset |-> offset, err |-> "cursor: level out of bounds"]
    ELSE IF offset > skip \/ (~stick_end /\ offset = skip /\ next.node # NULL)
    THEN \* Go right.
         IF ~(e = rope.head \/ ~is_empty_gb(en.str))
         THEN [cursor |-> iter, offset |-> offset, err |-> "cursor: empty node"]
         ELSE IF next.node = NULL
         THEN [cursor |-> iter, offset |-> offset,
               err |-> "Internal constraint violation: Reached rope end prematurely"]
         ELSE IF next.node \notin DOMAIN rope.nodes
         THEN [cursor |-> iter, offset |-> offset, err |-> "cursor: dangling pointer"]
         ELSE wchar_walk(rope, stick_end, next.node, height, offset - skip,
                         char_pos + next.skip_chars, iter)
    ELSE \* Record this and go down.
         IF height # 0
         THEN wchar_walk(rope, stick_end, e, height - 1, offset, char_pos,
                         [iter EXCEPT ![height] = Entry(e, char_pos, offset)])
         ELSE wchar_walk_end(rope, offset,
                             char_pos + count_chars_in_wchars(en.str, offset),
                             [iter EXCEPT ![height] = Entry(e, char_pos, offset)])

cursor_at_wchar(rope, wchar_pos0, stick_end) ==
    IF wchar_pos0 > len_wchars(rope)
    THEN [cursor |-> [i \in Levels |-> SkipEntry_new], offset |-> wchar_pos0,
          err |-> "cursor_at_wchar: wchar_pos > len_wchars"]
    ELSE wchar_walk(rope, stick_end, rope.head, head_of(rope).height - 1,
                    wchar_pos0, 0, [i \in Levels |-> SkipEntry_new])

mut_cursor_at_start(rope) == [i \in Levels |-> Entry(rope.head, 0, 0)]

\* MutCursor::height
height(m) == m.nodes[m.cursor[MAX_HEIGHT].node].height

is_head(m, ptr) == ptr = m.cursor[MAX_HEIGHT].node

global_char_pos(cursor, head_height) == cursor[head_height - 1].skip_chars

wchar_pos(cursor, head_height) ==
    cursor[head_height - 1].skip_chars + cursor[head_height - 1].skip_pairs

local_char_pos(cursor) == cursor[0].skip_chars

\* RopeCursor::update_offsets.  The source adds with wrapping_add; a wrapped
\* counter shows in the model as a negative number.
RECURSIVE update_offsets_from(_, _, _, _, _)
update_offsets_from(m, i, h, by_chars, by_pairs) ==
    IF i >= h \/ m.err # NoErr THEN m
    ELSE LET p == m.cursor[i].node
         IN IF p \notin DOMAIN m.nodes
            THEN Fail(m, "update_offsets: invalid pointer")
            ELSE IF i >= m.nodes[p].height
            THEN Fail(m, "update_offsets: level out of bounds")
            ELSE update_offsets_from(
                    [m EXCEPT !.nodes[p].nexts[i].skip_chars = @ + by_chars,
                              !.nodes[p].nexts[i].skip_pairs = @ + by_pairs],
                    i + 1, h, by_chars, by_pairs)

\* update_offsets that leaves the surrogate pair counters alone.
update_offsets_chars_only(m, h, by_chars, by_pairs) ==
    update_offsets_from(m, 0, h, by_chars, 0)

update_offsets(m, h, by_chars, by_pairs) ==
    update_offsets_from(m, 0, h, by_chars, by_pairs)

move_within_node(m, h, by_chars, by_pairs) ==
    [m EXCEPT !.cursor = [i \in Levels |->
        IF i < h
        THEN [m.cursor[i] EXCEPT !.skip_chars = @ + by_chars, !.skip_pairs = @ + by_pairs]
        ELSE m.cursor[i]]]

(***************************************************************************)
(* insert_node_at                                                          *)
(***************************************************************************)

\* random_height: the next height the generator yields, in 1..MAX_HEIGHT.
random_height(m) == Head(m.heights)

\* The head raised to the height of the new node and no further.
RECURSIVE raise_head_below(_, _, _)
raise_head_below(m, head_height, new_height) ==
    IF head_height >= new_height THEN m
    ELSE LET h == m.cursor[head_height].node
             nodes1 == [m.nodes EXCEPT
                          ![h].nexts[head_height] = m.nodes[h].nexts[head_height - 1]]
             cursor1 == [m.cursor EXCEPT ![head_height] = m.cursor[head_height - 1]]
             nodes2 == [nodes1 EXCEPT ![cursor1[MAX_HEIGHT].node].height = head_height + 1]
         IN raise_head_below([m EXCEPT !.nodes = nodes2, !.cursor = cursor1],
                             head_height + 1, new_height)

\* The head raised without the copy of its top entry to the new level.
RECURSIVE raise_head_no_copy(_, _, _)
raise_head_no_copy(m, head_height, new_height) ==
    IF head_height > new_height THEN m
    ELSE LET cursor1 == [m.cursor EXCEPT ![head_height] = m.cursor[head_height - 1]]
             nodes2 == [m.nodes EXCEPT ![cursor1[MAX_HEIGHT].node].height = head_height + 1]
         IN raise_head_no_copy([m EXCEPT !.nodes = nodes2, !.cursor = cursor1],
                               head_height + 1, new_height)

\* The head-raising loop: while head_height <= new_height.
RECURSIVE raise_head(_, _, _)
raise_head(m, head_height, new_height) ==
    IF head_height > new_height THEN m
    ELSE LET h == m.cursor[head_height].node
             nodes1 == [m.nodes EXCEPT
                          ![h].nexts[head_height] = m.nodes[h].nexts[head_height - 1]]
             cursor1 == [m.cursor EXCEPT ![head_height] = m.cursor[head_height - 1]]
             \* cursor.set_height(head_height + 1)
             nodes2 == [nodes1 EXCEPT ![cursor1[MAX_HEIGHT].node].height = head_height + 1]
         IN raise_head([m EXCEPT !.nodes = nodes2, !.cursor = cursor1],
                       head_height + 1, new_height)

\* for i in 0..new_height: splice the new node in at level i.
RECURSIVE splice_levels(_, _, _, _, _, _, _)
splice_levels(m, new_node, i, new_height, n_chars, n_pairs, update_cursor) ==
    IF i >= new_height \/ m.err # NoErr THEN m
    ELSE LET p == m.cursor[i].node
             c == m.cursor[i]
         IN IF p \notin DOMAIN m.nodes
            THEN Fail(m, "insert_node_at: invalid pointer")
            ELSE IF i >= m.nodes[p].height
            THEN Fail(m, "insert_node_at: level out of bounds")
            ELSE LET prev_skip == m.nodes[p].nexts[i]
                     mine == Entry(prev_skip.node,
                                   n_chars + prev_skip.skip_chars - c.skip_chars,
                                   n_pairs + prev_skip.skip_pairs - c.skip_pairs)
                     nodes1 == [m.nodes EXCEPT
                                  ![new_node].nexts[i] = mine,
                                  ![p].nexts[i] = Entry(new_node, c.skip_chars, c.skip_pairs)]
                     cursor1 == IF update_cursor
                                THEN [m.cursor EXCEPT ![i] = Entry(new_node, n_chars, n_pairs)]
                                ELSE m.cursor
                 IN IF mine.skip_chars < 0 \/ mine.skip_pairs < 0
                    THEN Fail(m, "insert_node_at: subtract with overflow")
                    ELSE splice_levels([m EXCEPT !.nodes = nodes1, !.cursor = cursor1],
                                       new_node, i + 1, new_height, n_chars, n_pairs,
                                       update_cursor)

\* for i in new_height..head_height: the levels that pass over the new node.
RECURSIVE pass_over_levels(_, _, _, _, _, _)
pass_over_levels(m, i, head_height, n_chars, n_pairs, update_cursor) ==
    IF i >= head_height \/ m.err # NoErr THEN m
    ELSE LET p == m.cursor[i].node
         IN IF p \notin DOMAIN m.nodes
            THEN Fail(m, "insert_node_at: invalid pointer")
            ELSE pass_over_levels(
                    [m EXCEPT
                       !.nodes[p].nexts[i].skip_chars = @ + n_chars,
                       !.nodes[p].nexts[i].skip_pairs = @ + n_pairs,
                       !.cursor[i].skip_chars = IF update_cursor THEN @ + n_chars ELSE @,
                       !.cursor[i].skip_pairs = IF update_cursor THEN @ + n_pairs ELSE @],
                    i + 1, head_height, n_chars, n_pairs, update_cursor)

\* self.num_bytes += n, unless the operation has panicked.
add_bytes(m, n) == IF m.err # NoErr THEN m ELSE [m EXCEPT !.num_bytes = @ + n]

\* Box::into_raw(Box::new(Node::new_with_height(new_height, contents)))
alloc_node(m, new_node, new_height, contents) ==
    [m EXCEPT !.heights = Tail(@),
              !.nodes = @ @@ (new_node :> new_with_height(new_height, contents))]

\* The two loops over the levels, once the head is tall enough.
link_node(m, new_node, new_height, n_chars, update_cursor, n_pairs) ==
    pass_over_levels(
        splice_levels(m, new_node, 0, new_height, n_chars, n_pairs, update_cursor),
        new_height, height(m), n_chars, n_pairs, update_cursor)

\* insert_node_at from the allocation of the node on.
place_node(m, new_node, new_height, n_chars, update_cursor, n_pairs) ==
    link_node(raise_head(m, height(m), new_height),
              new_node, new_height, n_chars, update_cursor, n_pairs)

insert_node_at(m, contents, n_chars, update_cursor, n_pairs) ==
    IF m.err # NoErr THEN m
    ELSE IF count_chars(contents) # n_chars
    THEN Fail(m, "insert_node_at: count_chars(contents) != num_chars")
    ELSE IF count_utf16_surrogates(contents) # n_pairs
    THEN Fail(m, "insert_node_at: count_utf16_surrogates(contents) != num_pairs")
    ELSE IF n_chars > NODE_STR_SIZE
    THEN Fail(m, "insert_node_at: num_chars > NODE_STR_SIZE")
    ELSE IF Len(contents) > NODE_STR_SIZE
    THEN Fail(m, "new_from_str: try_insert failed")
    ELSE add_bytes(
            place_node(alloc_node(m, FreshNode(m), random_height(m), contents),
                       FreshNode(m), random_height(m), n_chars, update_cursor, n_pairs),
            Len(contents))

(***************************************************************************)
(* insert_at_cursor                                                        *)
(***************************************************************************)

\* "Slide back to a character boundary" from byte_pos.
RECURSIVE slide_back(_, _)
slide_back(remainder, byte_pos) ==
    IF byte_pos < 0 THEN 0 - 1
    ELSE IF IsStartByte(remainder[byte_pos + 1]) THEN byte_pos
    ELSE slide_back(remainder, byte_pos - 1)

\* The loop that cuts the inserted text into nodes of at most NODE_STR_SIZE bytes.
RECURSIVE insert_chunks(_, _, _, _)
insert_chunks(m, remainder, n_chars, n_pairs) ==
    IF m.err # NoErr THEN m
    ELSE IF Len(remainder) <= NODE_STR_SIZE
    THEN insert_node_at(m, remainder, n_chars, TRUE, n_pairs)
    ELSE LET byte_pos == slide_back(remainder, NODE_STR_SIZE)
             slice == Slice(remainder, 0, byte_pos)
             char_pos == count_chars_in_bytes(slice)
             pairs == count_utf16_surrogates_in_bytes(slice)
             rem == Slice(remainder, byte_pos, Len(remainder))
         IN IF byte_pos < 0 THEN Fail(m, "insert_at_cursor: index out of bounds")
            ELSE IF slice = <<>> THEN Fail(m, "insert_at_cursor: empty chunk")
            ELSE insert_chunks(insert_node_at(m, slice, char_pos, TRUE, pairs),
                               rem, n_chars - char_pos, n_pairs - pairs)

\* insert_rest that moves the cursor behind the node of the rest.
insert_rest_advancing(m, e, rest, num_end_chars, num_end_pairs) ==
    insert_node_at([m EXCEPT !.nodes[e].str = rest.str],
                   rest.ret, num_end_chars, TRUE, num_end_pairs)

\* The end of the split path: the text that stood behind the insert position,
\* taken out of the leaf by take_rest, goes into a node of its own.
insert_rest(m, e, rest, num_end_chars, num_end_pairs) ==
    insert_node_at([m EXCEPT !.nodes[e].str = rest.str],
                   rest.ret, num_end_chars, FALSE, num_end_pairs)

\* The rest of the leaf put into the last node of the inserted text if it
\* fits there, and into a node of its own if not.
insert_split_end_joined(m, e, num_end_bytes, num_end_chars, num_end_pairs) ==
    IF m.err # NoErr \/ num_end_bytes <= 0 THEN m
    ELSE LET c == m.cursor[0].node
             rest == take_rest(m.nodes[e].str)
             joined == try_insert(m.nodes[c].str, len_bytes_gb(m.nodes[c].str), rest.ret)
         IN IF c = e \/ joined.err # NoErr
            THEN insert_rest(m, e, rest, num_end_chars, num_end_pairs)
            ELSE add_bytes(
                    [update_offsets([m EXCEPT !.nodes[e].str = rest.str,
                                              !.nodes[c].str = joined.str],
                                    height(m), num_end_chars, num_end_pairs)
                       EXCEPT !.cursor = m.cursor],
                    num_end_bytes)

insert_split_end(m, e, num_end_bytes, num_end_chars, num_end_pairs) ==
    IF m.err # NoErr \/ num_end_bytes <= 0 THEN m
    ELSE insert_rest(m, e, take_rest(m.nodes[e].str), num_end_chars, num_end_pairs)

\* The skip entries and num_bytes lose what stands behind the insert position.
insert_split_cut(m, head_height, num_end_bytes, num_end_chars, num_end_pairs) ==
    IF num_end_bytes > 0
    THEN add_bytes(update_offsets(m, head_height, 0 - num_end_chars, 0 - num_end_pairs),
                   0 - num_end_bytes)
    ELSE m

\* The split path once the gap of the leaf stands at the insert position.
insert_split_at(m, e, g, contents, offset_bytes, offset_chars, head_height, n_chars, n_pairs) ==
    LET num_end_bytes == len_bytes_gb(g.str) - offset_bytes
        num_end_chars == IF num_end_bytes > 0
                         THEN num_chars(m.nodes[e]) - offset_chars ELSE 0
        num_end_pairs == IF num_end_bytes > 0
                         THEN num_surrogate_pairs(m.nodes[e])
                                - g.str.gap_start_surrogate_pairs
                         ELSE 0
    IN IF g.err # NoErr THEN Fail(m, g.err)
       ELSE IF num_end_chars < 0 \/ num_end_pairs < 0
       THEN Fail([m EXCEPT !.nodes[e].str = g.str],
                 "insert_at_cursor: subtract with overflow")
       ELSE IF num_end_bytes > 0
               /\ num_end_pairs # count_utf16_surrogates(end_bytes(g.str))
       THEN Fail([m EXCEPT !.nodes[e].str = g.str], "insert_at_cursor: num_end_pairs")
       ELSE insert_split_end(
                insert_chunks(
                    insert_split_cut([m EXCEPT !.nodes[e].str = g.str], head_height,
                                     num_end_bytes, num_end_chars, num_end_pairs),
                    contents, n_chars, n_pairs),
                e, num_end_bytes, num_end_chars, num_end_pairs)

\* The split path: there is no room in the leaf (nor at the head of the next).
insert_split(m, e, contents, offset_bytes, offset_chars, head_height, n_chars, n_pairs) ==
    insert_split_at(m, e, move_gap(m.nodes[e].str, offset_bytes), contents,
                    offset_bytes, offset_chars, head_height, n_chars, n_pairs)

\* The leaf e has taken the text (r is what its buffer answered): the skip
\* entries that lead over it and the cursor move on by the text.
insert_done(m, e, r, head_height, n_bytes, n_chars, n_pairs) ==
    IF r.err # NoErr THEN Fail(m, r.err)
    ELSE move_within_node(
            update_offsets([m EXCEPT !.nodes[e].str = r.str,
                                     !.num_bytes = @ + n_bytes],
                           head_height, n_chars, n_pairs),
            head_height, n_chars, n_pairs)

\* The short circuit with the text counted but not stored in the leaf.
insert_short_not_stored(m, e, r, head_height, n_bytes, n_chars, n_pairs) ==
    IF r.err # NoErr THEN Fail(m, r.err)
    ELSE add_bytes(
            move_within_node(update_offsets(m, head_height, n_chars, n_pairs),
                             head_height, n_chars, n_pairs),
            n_bytes)

\* The short circuit: the gap of the leaf stands at the cursor and has room.
insert_short(m, e, r, head_height, n_bytes, n_chars, n_pairs) ==
    IF r.err # NoErr THEN Fail(m, r.err)
    ELSE add_bytes(
            move_within_node(
                update_offsets([m EXCEPT !.nodes[e].str = r.str],
                               head_height, n_chars, n_pairs),
                head_height, n_chars, n_pairs),
            n_bytes)

\* debug_assert!(cursor.local_char_pos() != 0) at the end of the slow path
insert_slow_end(m) ==
    IF m.err # NoErr THEN m
    ELSE IF local_char_pos(m.cursor) = 0
    THEN Fail(m, "insert_at_cursor: local_char_pos == 0")
    ELSE m

\* The slow path with the leaf e to insert into chosen (mc has the cursor on it).
insert_into(mc, e, insert_here, contents, offset_bytes, offset_chars, head_height, n_chars, n_pairs) ==
    IF insert_here
    THEN insert_done(mc, e, try_insert(mc.nodes[e].str, offset_bytes, contents),
                     head_height, Len(contents), n_chars, n_pairs)
    ELSE insert_split(mc, e, contents, offset_bytes, offset_chars, head_height,
                      n_chars, n_pairs)

\* The slow path: offset_bytes0 is the byte offset of the cursor in its leaf.
insert_slow(m, contents, offset_bytes0, head_height, n_chars, n_pairs) ==
    LET offset_chars == m.cursor[0].skip_chars
        e0 == m.cursor[0].node
        en == m.nodes[e0]
        num_inserted_bytes == Len(contents)
        current_len_bytes == len_bytes_gb(en.str)
        insert_here0 == current_len_bytes + num_inserted_bytes <= NODE_STR_SIZE
        next == en.nexts[0].node
        use_next == /\ ~insert_here0
                    /\ offset_bytes0 = current_len_bytes
                    /\ next # NULL
                    /\ len_bytes_gb(m.nodes[next].str) + num_inserted_bytes <= NODE_STR_SIZE
    IN IF next # NULL /\ next \notin DOMAIN m.nodes
       THEN Fail(m, "insert_at_cursor: dangling pointer")
       ELSE insert_slow_end(
                insert_into(
                    IF use_next
                    THEN [m EXCEPT !.cursor = [i \in Levels |->
                              IF i < m.nodes[next].height THEN Entry(next, 0, 0)
                              ELSE m.cursor[i]]]
                    ELSE m,
                    IF use_next THEN next ELSE e0,
                    insert_here0 \/ use_next,
                    contents,
                    IF use_next THEN 0 ELSE offset_bytes0,
                    offset_chars, head_height, n_chars, n_pairs))

\* insert_at_cursor with the chars and surrogate pairs of the text counted.
insert_counted(m, contents, n_chars, n_pairs) ==
    LET offset_chars == m.cursor[0].skip_chars
        e0 == m.cursor[0].node
        en == m.nodes[e0]
    IN
    IF en.str.gap_start_chars = offset_chars /\ en.str.gap_len >= Len(contents)
    THEN insert_short(m, e0, insert_in_gap(en.str, contents), height(m),
                      Len(contents), n_chars, n_pairs)
    ELSE IF offset_chars > 0 /\ offset_chars > en.nexts[0].skip_chars
    THEN Fail(m, "insert_at_cursor: offset_chars > skip_chars")
    ELSE insert_slow(m, contents,
                     IF offset_chars > 0 THEN count_bytes(en.str, offset_chars) ELSE 0,
                     height(m), n_chars, n_pairs)

insert_at_cursor(m, contents) ==
    IF m.err # NoErr \/ contents = <<>> THEN m
    ELSE insert_counted(m, contents, count_chars(contents),
                        IF Len(contents) # count_chars(contents)
                        THEN count_utf16_surrogates(contents) ELSE 0)

(***************************************************************************)
(* del_at_cursor                                                           *)
(***************************************************************************)

\* "Just trim the node down": r is what remove_chars answered; every skip
\* entry of the node loses `removed`.
trim_node_by(m, node, r, removed, removed_pairs) ==
    LET n == m.nodes[node]
        nexts1 == [i \in Levels |->
                     IF i < n.height
                     THEN Entry(n.nexts[i].node,
                                n.nexts[i].skip_chars - removed,
                                n.nexts[i].skip_pairs - removed_pairs)
                     ELSE n.nexts[i]]
    IN IF r.err # NoErr THEN Fail(m, r.err)
       ELSE IF \E i \in Levels : nexts1[i].skip_chars < 0 \/ nexts1[i].skip_pairs < 0
       THEN Fail(m, "del_at_cursor: subtract with overflow")
       ELSE [m EXCEPT !.nodes[node].str = r.str,
                      !.nodes[node].nexts = nexts1,
                      !.num_bytes = @ - r.ret]

trim_node(m, node, offset_chars, removed, removed_pairs) ==
    trim_node_by(m, node, remove_chars(m.nodes[node].str, offset_chars, removed),
                 removed, removed_pairs)

\* The node unlinked at level 0 only.
unlink_bottom_only(m, node, i, removed, removed_pairs) ==
    IF m.err # NoErr \/ i > 0 THEN m
    ELSE [m EXCEPT
            !.nodes[m.cursor[0].node].nexts[0] =
                Entry(m.nodes[node].nexts[0].node,
                      @.skip_chars + (m.nodes[node].nexts[0].skip_chars - removed),
                      @.skip_pairs + (m.nodes[node].nexts[0].skip_pairs - removed_pairs))]

\* for i in 0..node.height: point the cursor's node at level i past `node`.
RECURSIVE unlink_levels(_, _, _, _, _)
unlink_levels(m, node, i, removed, removed_pairs) ==
    IF m.err # NoErr \/ i >= m.nodes[node].height THEN m
    ELSE LET p == m.cursor[i].node
             mine == m.nodes[node].nexts[i]
         IN IF p \notin DOMAIN m.nodes
            THEN Fail(m, "del_at_cursor: invalid pointer")
            ELSE IF i >= m.nodes[p].height
            THEN Fail(m, "del_at_cursor: level out of bounds")
            ELSE IF mine.skip_chars - removed < 0 \/ mine.skip_pairs - removed_pairs < 0
            THEN Fail(m, "del_at_cursor: subtract with overflow")
            ELSE unlink_levels(
                    [m EXCEPT
                       !.nodes[p].nexts[i] =
                           Entry(mine.node,
                                 @.skip_chars + (mine.skip_chars - removed),
                                 @.skip_pairs + (mine.skip_pairs - removed_pairs))],
                    node, i + 1, removed, removed_pairs)

\* drop(Box::from_raw(node))
free_node(m, node) ==
    [m EXCEPT !.nodes = [n \in (DOMAIN m.nodes) \ {node} |-> m.nodes[n]],
              !.freed = @ \cup {node}]

\* The unlinked node is forgotten and never freed.
free_unlinked_leaked(m, node) ==
    IF m.err # NoErr THEN m
    ELSE [m EXCEPT !.num_bytes = @ - len_bytes_gb(m.nodes[node].str)]

\* The node is unlinked on every level: its bytes leave the rope and it is freed.
free_unlinked(m, node) ==
    IF m.err # NoErr THEN m
    ELSE free_node([m EXCEPT !.num_bytes = @ - len_bytes_gb(m.nodes[node].str)], node)

\* The node emptied in place and left in the list.
unlink_node_trimmed(m, node, removed, removed_pairs) ==
    trim_node(m, node, 0, removed, removed_pairs)

\* "Remove the node from the skip list."
unlink_node(m, node, removed, removed_pairs) ==
    free_unlinked(unlink_levels(m, node, 0, removed, removed_pairs), node)

\* for i in height..cursor.height(): the levels that pass over the node.
RECURSIVE shrink_levels(_, _, _, _, _)
shrink_levels(m, i, top, removed, removed_pairs) ==
    IF m.err # NoErr \/ i >= top THEN m
    ELSE LET p == m.cursor[i].node
         IN IF p \notin DOMAIN m.nodes
            THEN Fail(m, "del_at_cursor: invalid pointer")
            ELSE IF i >= m.nodes[p].height
            THEN Fail(m, "del_at_cursor: level out of bounds")
            ELSE IF m.nodes[p].nexts[i].skip_chars < removed
                    \/ m.nodes[p].nexts[i].skip_pairs < removed_pairs
            THEN Fail(m, "del_at_cursor: subtract with overflow")
            ELSE shrink_levels(
                    [m EXCEPT !.nodes[p].nexts[i].skip_chars = @ - removed,
                              !.nodes[p].nexts[i].skip_pairs = @ - removed_pairs],
                    i + 1, top, removed, removed_pairs)

shrink_above(m, h, removed, removed_pairs) ==
    IF m.err # NoErr THEN m
    ELSE shrink_levels(m, h, height(m), removed, removed_pairs)

RECURSIVE del_loop(_, _, _, _)

\* One round of `while length > 0` on `node`, with what it removes counted.
del_round(m, node, offset_chars, length, removed, removed_pairs) ==
    LET n == m.nodes[node]
        trim == removed < num_chars(n) \/ is_head(m, node)
    IN IF removed <= 0 THEN Fail(m, "del_at_cursor: removed == 0")
       ELSE IF removed_pairs < 0 THEN Fail(m, "del_at_cursor: subtract with overflow")
       ELSE IF ~trim /\ m.cursor[0].node = node
       THEN Fail(m, "del_at_cursor: cursor points at the removed node")
       ELSE del_loop(
                shrink_above(
                    IF trim
                    THEN trim_node(m, node, offset_chars, removed, removed_pairs)
                    ELSE unlink_node(m, node, removed, removed_pairs),
                    n.height, removed, removed_pairs),
                IF trim THEN node ELSE n.nexts[0].node,
                offset_chars,
                length - removed)

del_count(m, node, offset_chars, length, removed) ==
    del_round(m, node, offset_chars, length, removed,
              count_surrogate_pairs(m.nodes[node].str, offset_chars + removed)
                - count_surrogate_pairs(m.nodes[node].str, offset_chars))

\* The loop body without the hop to the next node at the end of a node.
del_loop_no_hop(m, node0, offset_chars0, length) ==
    IF m.err # NoErr \/ length <= 0 THEN m
    ELSE del_count(m, node0, offset_chars0, length,
                   Min(length, num_chars(m.nodes[node0]) - offset_chars0))

\* The body of `while length > 0`.
del_loop(m, node0, offset_chars0, length) ==
    IF m.err # NoErr \/ length <= 0 THEN m
    ELSE
    LET s == m.nodes[node0].nexts[0]
        at_end == offset_chars0 = s.skip_chars
        node == IF at_end THEN s.node ELSE node0
        offset_chars == IF at_end THEN 0 ELSE offset_chars0
    IN
    IF node = NULL THEN Fail(m, "del_at_cursor: null pointer dereference")
    ELSE IF node \notin DOMAIN m.nodes THEN Fail(m, "del_at_cursor: use after free")
    ELSE del_count(m, node, offset_chars, length,
                   Min(length, num_chars(m.nodes[node]) - offset_chars))

del_at_cursor(m, length) ==
    IF m.err # NoErr \/ length = 0 THEN m
    ELSE del_loop(m, m.cursor[0].node, local_char_pos(m.cursor), length)

(***************************************************************************)
(* Reading the content                                                     *)
(***************************************************************************)

\* NodeIter: the addresses of the level-0 chain, the head first.
RECURSIVE node_iter_from(_, _, _)
node_iter_from(rope, n, fuel) ==
    IF n = NULL \/ n \notin DOMAIN rope.nodes \/ fuel = 0 THEN <<>>
    ELSE <<n>> \o node_iter_from(rope, rope.nodes[n].nexts[0].node, fuel - 1)

node_iter(rope) == node_iter_from(rope, rope.head, Cardinality(DOMAIN rope.nodes))

\* ContentIter: the non-empty halves of every leaf, each with its char length.
RECURSIVE chunks_of(_, _)
chunks_of(rope, ns) ==
    IF ns = <<>> THEN <<>>
    ELSE LET n == rope.nodes[Head(ns)]
             a == <<start_bytes(n.str), n.str.gap_start_chars>>
             b == <<end_bytes(n.str), num_chars(n) - n.str.gap_start_chars>>
         IN (IF a[2] > 0 THEN <<a>> ELSE <<>>)
              \o (IF b[2] > 0 THEN <<b>> ELSE <<>>)
              \o chunks_of(rope, Tail(ns))

\* Both halves of every leaf, the empty ones too.
RECURSIVE halves_of(_, _)
halves_of(rope, ns) ==
    IF ns = <<>> THEN <<>>
    ELSE LET n == rope.nodes[Head(ns)]
         IN << <<start_bytes(n.str), n.str.gap_start_chars>>,
               <<end_bytes(n.str), num_chars(n) - n.str.gap_start_chars>> >>
              \o halves_of(rope, Tail(ns))

all_halves(rope) == halves_of(rope, node_iter(rope))

substrings_with_len(rope) == chunks_of(rope, node_iter(rope))

RECURSIVE Concat(_)
Concat(ss) == IF ss = <<>> THEN <<>> ELSE Head(ss) \o Concat(Tail(ss))

substrings(rope) ==
    LET c == substrings_with_len(rope) IN [i \in 1..Len(c) |-> c[i][1]]

\* Display::fmt: write every chunk in order.
to_string(rope) == Concat(substrings(rope))

(***************************************************************************)
(* The public operations of JumpRope.  Each returns the machine state at   *)
(* its end: RopeOf(m) is the rope, m.err its panic.                        *)
(***************************************************************************)

\* The machine that works on `rope` through the cursor c.
at_cursor(rope, c, heights) == Fail(Machine(rope, c.cursor, heights), c.err)

\* The machine of an operation that returns before it takes a cursor.
untouched(rope, heights) == Machine(rope, mut_cursor_at_start(rope), heights)

\* debug_assert_eq!(cursor.inner.global_char_pos(self.head.height), want)
check_pos(m, want, e) ==
    IF m.err # NoErr THEN m
    ELSE IF global_char_pos(m.cursor, m.nodes[m.head].height) # want THEN Fail(m, e)
    ELSE m

\* insert without the clamp of the position to len_chars.
insert_unclamped(rope, pos0, contents, heights) ==
    IF contents = <<>> THEN untouched(rope, heights)
    ELSE insert_at_cursor(at_cursor(rope, mut_cursor_at_char(rope, pos0, TRUE), heights),
                          contents)

\* insert with the position clamped.
insert_at(rope, pos, contents, heights) ==
    check_pos(
        insert_at_cursor(at_cursor(rope, mut_cursor_at_char(rope, pos, TRUE), heights),
                         contents),
        pos + count_chars(contents), "insert: cursor position")

insert(rope, pos0, contents, heights) ==
    IF contents = <<>> THEN untouched(rope, heights)
    ELSE insert_at(rope, Min(pos0, len_chars(rope)), contents, heights)

\* remove without the clamp of the range's end to len_chars.
remove_unclamped(rope, start, end0) ==
    IF start >= end0 THEN untouched(rope, <<>>)
    ELSE del_at_cursor(
            at_cursor(rope, mut_cursor_at_char(rope, Min(start, len_chars(rope)), TRUE),
                      <<>>),
            end0 - start)

\* remove with the end of the range clamped.
remove_range(rope, start, end) ==
    IF start >= end THEN untouched(rope, <<>>)
    ELSE check_pos(
            del_at_cursor(at_cursor(rope, mut_cursor_at_char(rope, start, TRUE), <<>>),
                          end - start),
            start, "remove: cursor position")

\* remove that takes the end of the range as inclusive.
remove_inclusive(rope, start, end0) ==
    remove_range(rope, start, Min(end0 + 1, len_chars(rope)))

remove(rope, start, end0) ==
    remove_range(rope, start, Min(end0, len_chars(rope)))

\* if del_len > 0 { del_at_cursor }
replace_del(m, del_len) == IF del_len > 0 THEN del_at_cursor(m, del_len) ELSE m

\* if !content.is_empty() { insert_at_cursor }
replace_ins(m, content) == IF content # <<>> THEN insert_at_cursor(m, content) ELSE m

\* replace with pos and del_len computed.
replace_at(rope, pos, del_len, content, heights) ==
    IF del_len < 0
    THEN Fail(untouched(rope, heights), "replace: attempt to subtract with overflow")
    ELSE check_pos(
            replace_ins(
                replace_del(
                    at_cursor(rope, mut_cursor_at_char(rope, pos, TRUE), heights),
                    del_len),
                content),
            pos + count_chars(content), "replace: cursor position")

replace(rope, start, end, content, heights) ==
    replace_at(rope,
               Min(start, len_chars(rope)),
               Min(end, len_chars(rope)) - Min(start, len_chars(rope)),
               content, heights)

(***************************************************************************)
(* Iteration over a range of characters                                    *)
(***************************************************************************)

\* read_cursor_at_char: the leaf that holds char_pos and the offset in it,
\* found by the walk of old_cursor_at_char.
read_cursor_of(c) ==
    [node |-> c.cursor[0].node, offset_chars |-> c.cursor[0].skip_chars, err |-> c.err]

read_cursor_at_char(rope, char_pos, stick_end) ==
    read_cursor_of(old_cursor_at_char(rope, char_pos, stick_end))

\* ContentIter { next: Some(node), at_start }, run to its end.
content_iter(rope, node, at_start) ==
    IF at_start
    THEN chunks_of(rope, node_iter_from(rope, node, Cardinality(DOMAIN rope.nodes)))
    ELSE (IF num_chars(rope.nodes[node]) - rope.nodes[node].str.gap_start_chars > 0
          THEN << <<end_bytes(rope.nodes[node].str),
                    num_chars(rope.nodes[node]) - rope.nodes[node].str.gap_start_chars>> >>
          ELSE <<>>)
         \o chunks_of(rope, node_iter_from(rope, rope.nodes[node].nexts[0].node,
                                           Cardinality(DOMAIN rope.nodes)))

\* What SliceIter::next yields of the chunk s of char_len scalars once the
\* first `skip` scalars are cut off: the first take_len scalars of the rest.
slice_take(s, char_len, take_len) ==
    IF take_len < char_len
    THEN <<Slice(s, 0, str_chars_to_bytes(s, take_len)), take_len>>
    ELSE <<s, char_len>>

\* The items of a SliceIter over `chunks`, and its panic.
RECURSIVE slice_iter(_, _, _)
slice_iter(chunks, skip, take_len) ==
    IF take_len = 0 \/ chunks = <<>> THEN [items |-> <<>>, err |-> NoErr]
    ELSE IF skip > 0 /\ ~(str_chars_to_bytes(Head(chunks)[1], skip) < Len(Head(chunks)[1]))
    THEN [items |-> <<>>, err |-> "SliceIter: assertion failed: byte < s.len()"]
    ELSE LET item == IF skip > 0
                     THEN slice_take(Slice(Head(chunks)[1],
                                           str_chars_to_bytes(Head(chunks)[1], skip),
                                           Len(Head(chunks)[1])),
                                     Head(chunks)[2] - skip, take_len)
                     ELSE slice_take(Head(chunks)[1], Head(chunks)[2], take_len)
             rest == slice_iter(Tail(chunks), 0, take_len - item[2])
         IN [items |-> <<item>> \o rest.items, err |-> rest.err]

\* slice_from that starts every slice at the first half of the leaf.
slice_from_first_half(rope, cursor, take_len) ==
    IF cursor.err # NoErr THEN [items |-> <<>>, err |-> cursor.err]
    ELSE slice_iter(content_iter(rope, cursor.node, TRUE), cursor.offset_chars, take_len)

\* slice_substrings_with_len once the cursor is there.
slice_from(rope, cursor, take_len) ==
    IF cursor.err # NoErr THEN [items |-> <<>>, err |-> cursor.err]
    ELSE IF take_len < 0
    THEN [items |-> <<>>, err |-> "slice: attempt to subtract with overflow"]
    ELSE IF cursor.offset_chars >= rope.nodes[cursor.node].str.gap_start_chars
    THEN slice_iter(content_iter(rope, cursor.node, FALSE),
                    cursor.offset_chars - rope.nodes[cursor.node].str.gap_start_chars,
                    take_len)
    ELSE slice_iter(content_iter(rope, cursor.node, TRUE), cursor.offset_chars, take_len)

slice_substrings_with_len(rope, start, end) ==
    slice_from(rope, read_cursor_at_char(rope, start, FALSE), end - start)

\* slice_substrings: the strings of the items; slice_chars yields their scalars
\* one by one, so both give the bytes of the items in order.
strings_of(x) == [items |-> [i \in 1..Len(x.items) |-> x.items[i][1]], err |-> x.err]

slice_substrings(rope, start, end) ==
    strings_of(slice_substrings_with_len(rope, start, end))

chars_of(x) == [chars |-> Concat(x.items), err |-> x.err]

slice_chars(rope, start, end) == chars_of(slice_substrings(rope, start, end))

(***************************************************************************)
(* Positions in UTF-16 units                                               *)
(***************************************************************************)

chars_to_wchars(rope, chars) ==
    IF old_cursor_at_char(rope, chars, TRUE).err # NoErr
    THEN [ret |-> 0, err |-> old_cursor_at_char(rope, chars, TRUE).err]
    ELSE [ret |-> wchar_pos(old_cursor_at_char(rope, chars, TRUE).cursor,
                            head_of(rope).height),
          err |-> NoErr]

wchars_to_chars(rope, wchars) ==
    IF cursor_at_wchar(rope, wchars, TRUE).err # NoErr
    THEN [ret |-> 0, err |-> cursor_at_wchar(rope, wchars, TRUE).err]
    ELSE [ret |-> global_char_pos(cursor_at_wchar(rope, wchars, TRUE).cursor,
                                  head_of(rope).height),
          err |-> NoErr]

\* old_insert_at_cursor: insert_at_cursor through a RopeCursor; the levels
\* the walk left unset name the head, as a MutCursor's do.
old_insert_at_cursor(rope, c, contents, heights) ==
    insert_at_cursor(
        Fail(Machine(rope,
                     [i \in Levels |-> IF i < head_of(rope).height THEN c.cursor[i]
                                       ELSE Entry(rope.head, 0, 0)],
                     heights),
             c.err),
        contents)

\* The end of insert_at_wchar: the debug_assert_eq! on the cursor's position
\* in UTF-16 units, and the value returned.
insert_at_wchar_end(m, want) ==
    IF m.err # NoErr THEN [m |-> m, ret |-> 0]
    ELSE IF wchar_pos(m.cursor, m.nodes[m.head].height) # want
    THEN [m |-> Fail(m, "insert_at_wchar: cursor position"), ret |-> 0]
    ELSE [m |-> m, ret |-> global_char_pos(m.cursor, m.nodes[m.head].height)]

\* insert_at_wchar with the position clamped.
insert_at_wchar_clamped(rope, pos_wchar, contents, heights) ==
    insert_at_wchar_end(
        old_insert_at_cursor(rope, cursor_at_wchar(rope, pos_wchar, TRUE), contents, heights),
        pos_wchar + count_chars(contents) + count_utf16_surrogates(contents))

insert_at_wchar(rope, pos_wchar, contents, heights) ==
    insert_at_wchar_clamped(rope, Min(pos_wchar, len_wchars(rope)), contents, heights)

(***************************************************************************)
(* Comparison, check, clone and drop                                       *)
(***************************************************************************)

SeqToSet(q) == {q[i] : i \in 1..Len(q)}

\* The result of a comparison: the value returned, or the panic.
EqOk(b) == [ret |-> b, err |-> NoErr]
EqErr(e) == [ret |-> FALSE, err |-> e]

\* The loop of PartialEq::eq: ss are the chunks of self still to come, s is
\* what is left of the current one; others and os the same for the other rope.
RECURSIVE eq_loop(_, _, _, _)
eq_loop(ss, s, others, os) ==
    IF s = <<>>
    THEN IF ss = <<>> THEN EqOk(TRUE)
         ELSE eq_loop(Tail(ss), Head(ss), others, os)
    ELSE IF os = <<>>
    THEN IF others = <<>> THEN EqErr("eq: called Option::unwrap() on a None value")
         ELSE IF Head(others) = <<>> THEN EqErr("eq: os is empty")
         ELSE eq_loop(ss, s, Tail(others), Head(others))
    ELSE LET amt == Min(Len(s), Len(os))
         IN IF ~is_char_boundary(s, amt) \/ ~is_char_boundary(os, amt)
            THEN EqErr("eq: split_at: byte index is not a char boundary")
            ELSE IF Slice(s, 0, amt) # Slice(os, 0, amt) THEN EqOk(FALSE)
            ELSE eq_loop(ss, Slice(s, amt, Len(s)), others, Slice(os, amt, Len(os)))

\* impl PartialEq for JumpRope
eq(self, other) ==
    IF self.num_bytes # other.num_bytes \/ len_chars(self) # len_chars(other)
    THEN EqOk(FALSE)
    ELSE eq_loop(substrings(self), <<>>, substrings(other), <<>>)

RECURSIVE eq_str_loop(_, _)
eq_str_loop(ss, other) ==
    IF ss = <<>> THEN EqOk(TRUE)
    ELSE LET s == Head(ss)
         IN IF Len(s) > Len(other) \/ ~is_char_boundary(other, Len(s))
            THEN EqErr("eq_str: split_at: byte index is not a char boundary")
            ELSE IF Slice(other, 0, Len(s)) # s THEN EqOk(FALSE)
            ELSE eq_str_loop(Tail(ss), Slice(other, Len(s), Len(other)))

\* JumpRope::eq_str, behind PartialEq<str>, PartialEq<String> and PartialEq<T: AsRef<str>>
eq_str(self, other) ==
    IF len_bytes(self) # Len(other) THEN EqOk(FALSE)
    ELSE eq_str_loop(substrings(self), other)

\* The walk of JumpRope::check over the nodes: iter holds, per level, the node
\* expected next and the distance travelled.  The first failing assertion is
\* returned in err.
RECURSIVE check_nodes(_, _, _, _, _, _)
check_nodes(rope, ns, iter, num_bytes, nchars, npairs) ==
    IF ns = <<>>
    THEN [err |-> NoErr, iter |-> iter, num_bytes |-> num_bytes,
          num_chars |-> nchars, num_pairs |-> npairs]
    ELSE
    LET n == Head(ns)
        node == rope.nodes[n]
        bad(e) == [err |-> e, iter |-> iter, num_bytes |-> num_bytes,
                   num_chars |-> nchars, num_pairs |-> npairs]
    IN IF is_empty_gb(node.str) /\ n # rope.head THEN bad("check: empty node")
       ELSE IF node.height > MAX_HEIGHT THEN bad("check: n.height <= MAX_HEIGHT")
       ELSE IF node.height < 1 THEN bad("check: n.height >= 1")
       ELSE IF ~check_gb(node.str) THEN bad("check: gap buffer")
       ELSE IF count_chars(start_bytes(node.str)) + count_chars(end_bytes(node.str))
                  # num_chars(node)
       THEN bad("check: num_chars")
       ELSE IF \E i \in 0..(node.height - 1) :
                  \/ iter[i].node # n
                  \/ iter[i].skip_chars # nchars
                  \/ iter[i].skip_pairs # npairs
       THEN bad("check: skip entry")
       ELSE IF num_surrogate_pairs(node)
                  # count_surrogate_pairs(node.str, num_chars(node))
       THEN bad("check: surrogate pairs")
       ELSE check_nodes(rope, Tail(ns),
                [i \in DOMAIN iter |->
                    IF i < node.height
                    THEN Entry(node.nexts[i].node,
                               iter[i].skip_chars + node.nexts[i].skip_chars,
                               iter[i].skip_pairs + node.nexts[i].skip_pairs)
                    ELSE iter[i]],
                num_bytes + len_bytes_gb(node.str),
                nchars + num_chars(node),
                npairs + num_surrogate_pairs(node))

\* The assertions of JumpRope::check that follow the walk w over the nodes.
check_walked(rope, head, w) ==
    IF w.err # NoErr THEN w.err
    ELSE IF \E i \in 0..(head.height - 1) :
               \/ w.iter[i].node # NULL
               \/ w.iter[i].skip_chars # w.num_chars
               \/ w.iter[i].skip_pairs # w.num_pairs
    THEN "check: final skip entry"
    ELSE IF rope.num_bytes # w.num_bytes THEN "check: num_bytes"
    ELSE IF len_chars(rope) # w.num_chars THEN "check: len_chars"
    ELSE IF len_wchars(rope) # w.num_chars + w.num_pairs THEN "check: len_wchars"
    ELSE NoErr

\* JumpRope::check: NoErr if every assertion holds, else the first that fails.
check(rope) ==
    LET head == head_of(rope)
        skip_over == head.nexts[head.height - 1]
        iter0 == [i \in 0..(MAX_HEIGHT - 1) |->
                    IF i < head.height THEN Entry(rope.head, 0, 0) ELSE SkipEntry_new]
    IN IF head.height < 1 THEN "check: head.height >= 1"
       ELSE IF ~(head.height < MAX_HEIGHT + 1) THEN "check: head.height < MAX_HEIGHT + 1"
       ELSE IF skip_over.skip_chars > rope.num_bytes THEN "check: skip_chars <= num_bytes"
       ELSE IF skip_over.skip_pairs > skip_over.skip_chars
       THEN "check: skip_pairs <= skip_chars"
       ELSE IF skip_over.node # NULL THEN "check: top entry is not null"
       ELSE check_walked(rope, head,
                         check_nodes(rope, node_iter(rope), iter0, 0, 0, 0))

\* The loop of Clone::clone: both halves of every node of self are inserted at
\* the cursor of the new rope.
RECURSIVE clone_loop(_, _, _)
clone_loop(self, ns, m) ==
    IF ns = <<>> \/ m.err # NoErr THEN m
    ELSE LET str == self.nodes[Head(ns)].str
             m1 == insert_at_cursor(m, start_bytes(str))
             m2 == insert_at_cursor(m1, end_bytes(str))
         IN clone_loop(self, Tail(ns), m2)

\* Clone::clone.  The new rope lives in the memory of self; the machine state
\* returned holds it and that memory.
clone(self, heights) ==
    LET r == new_with_rng(self.nodes)
    IN clone_loop(self, node_iter(self), Machine(r, mut_cursor_at_start(r), heights))

\* Drop::drop: every node behind the head is freed, and the head goes with the
\* rope.  The memory that is left is returned.
drop(self) ==
    LET gone == SeqToSet(node_iter(self))
    IN [n \in (DOMAIN self.nodes) \ gone |-> self.nodes[n]]

(***************************************************************************)
(* JumpRopeBuf: a rope behind one buffered operation                       *)
(***************************************************************************)

\* BufferedOp::new
BufferedOp_new == [kind |-> "Ins", ins_content |-> <<>>, start |-> 0, end |-> 0]

\* Range::is_empty and Range::len of the buffered range
op_is_empty(o) == ~(o.start < o.end)

op_len(o) == IF o.start < o.end THEN o.end - o.start ELSE 0

op_clear(o) == [o EXCEPT !.ins_content = <<>>, !.start = 0, !.end = 0]

Op_Ins(pos, content) == [kind |-> "Ins", start |-> pos, end |-> pos, content |-> content]

Op_Del(start, end) == [kind |-> "Del", start |-> start, end |-> end, content |-> <<>>]

\* The result of try_append: the buffered op, Ok(()) or Err(()), a panic.
AppOk(o) == [op |-> o, ok |-> TRUE, err |-> NoErr]
AppNo(o) == [op |-> o, ok |-> FALSE, err |-> NoErr]
AppPanic(o, e) == [op |-> o, ok |-> FALSE, err |-> e]

\* BufferedOp::try_append
try_append(o, op) ==
    IF op_is_empty(o)
    THEN IF op.kind = "Ins"
         THEN AppOk([kind |-> "Ins",
                     ins_content |-> o.ins_content \o op.content,
                     start |-> op.start,
                     end |-> op.start + count_chars(op.content)])
         ELSE IF o.ins_content # <<>>
         THEN AppPanic(o, "try_append: ins_content is not empty")
         ELSE AppOk([o EXCEPT !.kind = "Del", !.start = op.start, !.end = op.end])
    ELSE IF o.kind = "Ins" /\ op.kind = "Ins" /\ op.start = o.end
    THEN AppOk([o EXCEPT !.ins_content = @ \o op.content,
                         !.end = @ + count_chars(op.content)])
    ELSE IF o.kind = "Ins" /\ op.kind = "Del" /\ op.end = o.end /\ op.start >= o.start
    THEN IF op.start = o.start
         THEN AppOk([o EXCEPT !.ins_content = <<>>, !.end = o.start])
         ELSE LET char_offset == op.start - o.start
                  byte_offset == IF op_len(o) = Len(o.ins_content) THEN char_offset
                                 ELSE char_to_byte_idx(o.ins_content, char_offset)
              IN IF byte_offset <= Len(o.ins_content)
                    /\ ~is_char_boundary(o.ins_content, byte_offset)
                 THEN AppPanic(o, "truncate: new_len is not a char boundary")
                 ELSE AppOk([o EXCEPT
                         !.end = op.start,
                         !.ins_content = IF byte_offset <= Len(@)
                                         THEN Slice(@, 0, byte_offset) ELSE @])
    ELSE IF o.kind = "Del" /\ op.kind = "Del" /\ op.start <= o.start /\ op.end >= o.start
    THEN AppOk([o EXCEPT !.end = @ + (op.end - o.start), !.start = op.start])
    ELSE AppNo(o)

\* A JumpRopeBuf is [rope, op, err]; in the middle of a call it also carries
\* the heights the rope may still draw.
BufOf(b) == [rope |-> b.rope, op |-> b.op, err |-> b.err]

\* The buffer once the rope has taken the buffered op (m is what it answered).
flushed(inner, m, heights) ==
    [rope |-> RopeOf(m),
     op |-> IF m.err = NoErr THEN op_clear(inner.op) ELSE inner.op,
     err |-> m.err,
     heights |-> IF inner.op.kind = "Ins" THEN m.heights ELSE heights]

\* flush_mut that clears the buffered op without giving it to the rope.
flush_mut_discarding(inner, heights) ==
    [rope |-> inner.rope,
     op |-> IF inner.err = NoErr THEN op_clear(inner.op) ELSE inner.op,
     err |-> inner.err, heights |-> heights]

\* JumpRopeBuf::flush_mut
flush_mut(inner, heights) ==
    IF inner.err # NoErr \/ op_is_empty(inner.op)
    THEN [rope |-> inner.rope, op |-> inner.op, err |-> inner.err, heights |-> heights]
    ELSE IF inner.op.kind = "Ins"
    THEN flushed(inner,
                 insert(inner.rope, inner.op.start, inner.op.ins_content, heights),
                 heights)
    ELSE flushed(inner, remove(inner.rope, inner.op.start, inner.op.end), heights)

\* self.op.try_append(op).unwrap() on the flushed buffer f
push_flushed(f, b) ==
    IF f.err # NoErr THEN f
    ELSE IF ~b.ok
    THEN [f EXCEPT !.err =
             IF b.err # NoErr THEN b.err
             ELSE "internal_push_op: called Result::unwrap() on an Err value"]
    ELSE [f EXCEPT !.op = b.op]

\* internal_push_op when the op does not append: flush, then append.
push_after_flush(f, op) == push_flushed(f, try_append(f.op, op))

\* internal_push_op with the answer a of the first try_append
push_tried(inner, a, op, heights) ==
    IF a.err # NoErr
    THEN [rope |-> inner.rope, op |-> inner.op, err |-> a.err, heights |-> heights]
    ELSE IF a.ok
    THEN [rope |-> inner.rope, op |-> a.op, err |-> NoErr, heights |-> heights]
    ELSE push_after_flush(flush_mut(inner, heights), op)

\* internal_push_op that never merges: it flushes, then appends.
internal_push_op_unmerged(inner, op, heights) ==
    push_after_flush(flush_mut(inner, heights), op)

\* JumpRopeBuf::internal_push_op
internal_push_op(inner, op, heights) ==
    push_tried(inner, try_append(inner.op, op), op, heights)

\* JumpRopeBuf::new
JumpRopeBuf_new == [rope |-> new_with_rng(<<>>), op |-> BufferedOp_new, err |-> NoErr]

\* JumpRopeBuf::insert and JumpRopeBuf::remove
buf_insert(inner, pos, content, heights) ==
    internal_push_op(inner, Op_Ins(pos, content), heights)

buf_remove(inner, start, end, heights) ==
    internal_push_op(inner, Op_Del(start, end), heights)

\* JumpRopeBuf::into_inner
into_inner(inner, heights) == flush_mut(inner, heights)

\* borrow that hands out the rope as it is.
borrow_no_flush(inner, heights) ==
    [rope |-> inner.rope, op |-> inner.op, err |-> inner.err, heights |-> heights]

\* JumpRopeBuf::borrow
buf_borrow(inner, heights) == flush_mut(inner, heights)

\* borrow on a cell that is never found borrowed.
borrow_unchecked(inner, refs, heights) ==
    [inner |-> BufOf(buf_borrow(inner, heights)), refs |-> refs + 1]

\* JumpRopeBuf::borrow on the RefCell, refs the Refs of it that are alive:
\* borrow_mut panics when there is one; the Ref returned is one more.
borrow_ref(inner, refs, heights) ==
    IF refs > 0
    THEN [inner |-> [BufOf(inner) EXCEPT !.err = "borrow: already borrowed: BorrowMutError"],
          refs |-> refs]
    ELSE [inner |-> BufOf(buf_borrow(inner, heights)),
          refs |-> IF buf_borrow(inner, heights).err = NoErr THEN refs + 1 ELSE refs]

\* The answer of a JumpRopeBuf method: the buffer it leaves, the value
\* returned and the panic.
BufAnswer(f, ret) == [inner |-> BufOf(f), ret |-> ret, err |-> f.err]

BufPanic(inner, e) == [inner |-> [BufOf(inner) EXCEPT !.err = e], ret |-> 0, err |-> e]

\* JumpRopeBuf::len_chars
buf_len_chars(inner) ==
    IF inner.op.kind = "Ins"
    THEN BufAnswer(inner, len_chars(inner.rope) + op_len(inner.op))
    ELSE IF len_chars(inner.rope) < op_len(inner.op)
    THEN BufPanic(inner, "len_chars: attempt to subtract with overflow")
    ELSE BufAnswer(inner, len_chars(inner.rope) - op_len(inner.op))

\* JumpRopeBuf::is_empty
buf_is_empty(inner) ==
    IF inner.op.kind = "Ins"
    THEN BufAnswer(inner, len_chars(inner.rope) = 0 /\ op_is_empty(inner.op))
    ELSE IF len_chars(inner.rope) < op_len(inner.op)
    THEN BufPanic(inner, "is_empty: attempt to subtract with overflow")
    ELSE BufAnswer(inner, len_chars(inner.rope) - op_len(inner.op) = 0)

\* len_bytes that never flushes.
buf_len_bytes_no_flush(inner, heights) ==
    BufAnswer(inner, len_bytes(inner.rope) + Len(inner.op.ins_content))

\* The Kind::Del arm of len_bytes, f the flushed buffer.
len_bytes_flushed(f) == BufAnswer(f, len_bytes(f.rope))

\* JumpRopeBuf::len_bytes
buf_len_bytes(inner, heights) ==
    IF inner.op.kind = "Ins"
    THEN BufAnswer(inner, len_bytes(inner.rope) + Len(inner.op.ins_content))
    ELSE len_bytes_flushed(flush_mut(inner, heights))

\* AsMut::as_mut: the rope handed out is the one of the flushed buffer.
buf_as_mut(inner, heights) == flush_mut(inner, heights)

\* Display::fmt on the borrowed rope f
fmt_borrowed(f) == BufAnswer(f, IF f.err = NoErr THEN to_string(f.rope) ELSE <<>>)

\* impl Display for JumpRopeBuf
buf_to_string(inner, heights) == fmt_borrowed(buf_borrow(inner, heights))

\* JumpRope::eq_str on the borrowed rope f
eq_str_borrowed(f, s) ==
    IF f.err # NoErr THEN BufAnswer(f, FALSE)
    ELSE [inner |-> [BufOf(f) EXCEPT !.err = eq_str(f.rope, s).err],
          ret |-> eq_str(f.rope, s).ret,
          err |-> eq_str(f.rope, s).err]

\* JumpRopeBuf::eq_str, behind PartialEq<str>, PartialEq<String> and PartialEq<T>
buf_eq_str(inner, s, heights) == eq_str_borrowed(buf_borrow(inner, heights), s)

\* self.borrow().eq(other.borrow().deref()) with both buffers flushed to fa, fb
eq_borrowed(fa, fb) ==
    [a |-> BufOf(fa),
     b |-> BufOf(fb),
     ret |-> IF fa.err = NoErr /\ fb.err = NoErr THEN eq(fa.rope, fb.rope).ret ELSE FALSE,
     err |-> IF fa.err # NoErr THEN fa.err
             ELSE IF fb.err # NoErr THEN fb.err
             ELSE eq(fa.rope, fb.rope).err]

\* PartialEq<JumpRopeBuf> for JumpRopeBuf; `same` says that self and other
\* are one object (std::ptr::eq), and then neither is borrowed.
buf_eq(a, b, same, ha, hb) ==
    IF same THEN [a |-> BufOf(a), b |-> BufOf(b), ret |-> TRUE, err |-> NoErr]
    ELSE eq_borrowed(buf_borrow(a, ha), buf_borrow(b, hb))

(***************************************************************************)
(* The inputs                                                              *)
(***************************************************************************)

\* Scalars of 1, 1, 2 and 4 UTF-8 bytes: a, b, U+00E9, U+10190.
ScalarA == <<97>>
ScalarB == <<98>>
ScalarE == <<195, 169>>
ScalarP == <<240, 144, 134, 144>>

\* A text is a sequence of scalars; Utf8(t) is its encoding.
Utf8(t) == Concat(t)

Texts ==
    { <<>>,
      <<ScalarA>>, <<ScalarE>>, <<ScalarP>>,
      <<ScalarA, ScalarB>>,
      <<ScalarE, ScalarP>> }

\* The reference: a flat sequence of scalars.
RefLen(r) == Len(r)

RefInsert(r, pos, t) ==
    LET p == Min(pos, Len(r))
    IN SubSeq(r, 1, p) \o t \o SubSeq(r, p + 1, Len(r))

RefRemove(r, start, end) ==
    LET e == Min(end, Len(r))
    IN IF start >= e THEN r
       ELSE SubSeq(r, 1, start) \o SubSeq(r, e + 1, Len(r))

RefReplace(r, start, end, t) == RefInsert(RefRemove(r, start, end), start, t)

RefBytes(r) == Utf8(r)

RefPairs(r) == Cardinality({i \in 1..Len(r) : Len(r[i]) = 4})

\* The number of nodes an operation allocates does not depend on the heights
\* drawn: run it with every height 1 and count the heights it consumed.
Ones(k) == [i \in 1..k |-> 1]

MaxNewNodes(contents) == Len(contents) + 1

NodesCreated(m, k) == k - Len(m.heights)

HeightSeqs(k) == [1..k -> 1..MAX_HEIGHT]

(***************************************************************************)
(* The rope under a sequence of public operations, beside its reference    *)
(***************************************************************************)

VARIABLES
    rope,    \* the JumpRope
    err,     \* the panic of the last operation, NoErr if none
    ref,     \* the reference string: the scalars the rope should hold
    nops,    \* the number of operations applied
    last,    \* the last operation and its arguments
    other,   \* a second rope: the one compared with, or the clone
    res,     \* the result of the last comparison
    buf,     \* the JumpRopeBuf fed the same edits as rope
    borrows, \* the Ref<JumpRope> values of buf's RefCell that are alive
    leaf     \* a GapBuffer of its own, worked on directly

vars == <<rope, err, ref, nops, last, other, res, buf, borrows, leaf>>

NoRope == [head |-> NULL, num_bytes |-> 0, nodes |-> <<>>]

NoRes == [eq |-> EqOk(FALSE), eq_str |-> EqOk(FALSE), done |-> FALSE]

NoOp == [op |-> "new", start |-> 0, end |-> 0, text |-> <<>>, len |-> 0,
         undo |-> FALSE]

Init ==
    /\ rope = new_with_rng(<<>>)
    /\ err = NoErr
    /\ ref = <<>>
    /\ nops = 0
    /\ last = NoOp
    /\ other = NoRope
    /\ res = NoRes
    /\ buf = JumpRopeBuf_new
    /\ borrows = 0
    /\ leaf = GapBuffer_new

Positions == 0..(len_chars(rope) + 1)

\* remove(start..end) is the range the last operation, an insert, filled.
UndoesLast(start, end) ==
    /\ last.op = "insert"
    /\ last.text # <<>>
    /\ start = Min(last.start, last.len)
    /\ end = start + Len(last.text)

\* What an operation leaves behind: the rope and the panic, if any.
Outcome(m) == [rope |-> RopeOf(m), err |-> m.err]

\* The outcomes of insert over the heights random_height can draw for the nodes
\* the insert creates (n of them, counted by a run with all heights 1).
InsertWith(r, pos, contents, n) ==
    {Outcome(insert(r, pos, contents, hs)) : hs \in HeightSeqs(n)}

InsertOutcomes(r, pos, contents) ==
    InsertWith(r, pos, contents,
               NodesCreated(insert(r, pos, contents, Ones(MaxNewNodes(contents))),
                            MaxNewNodes(contents)))

ReplaceWith(r, start, end, contents, n) ==
    {Outcome(replace(r, start, end, contents, hs)) : hs \in HeightSeqs(n)}

ReplaceOutcomes(r, start, end, contents) ==
    ReplaceWith(r, start, end, contents,
                NodesCreated(replace(r, start, end, contents,
                                     Ones(MaxNewNodes(contents))),
                             MaxNewNodes(contents)))

Insert ==
    /\ err = NoErr
    /\ nops < MaxOps
    /\ \E pos \in Positions, t \in Texts :
         /\ \E o \in InsertOutcomes(rope, pos, Utf8(t)) :
              rope' = o.rope /\ err' = o.err
         /\ ref' = RefInsert(ref, pos, t)
         /\ last' = [op |-> "insert", start |-> pos, end |-> pos, text |-> t,
                     len |-> len_chars(rope), undo |-> FALSE]
    /\ nops' = nops + 1
    /\ UNCHANGED <<leaf, borrows, other, res, buf>>

Remove ==
    /\ err = NoErr
    /\ nops < MaxOps
    /\ \E start \in Positions, end \in Positions :
         /\ \E o \in {Outcome(remove(rope, start, end))} :
              rope' = o.rope /\ err' = o.err
         /\ ref' = RefRemove(ref, start, end)
         /\ last' = [op |-> "remove", start |-> start, end |-> end, text |-> <<>>,
                     len |-> len_chars(rope),
                     undo |-> UndoesLast(start, end)]
    /\ nops' = nops + 1
    /\ UNCHANGED <<leaf, borrows, other, res, buf>>

Replace ==
    /\ err = NoErr
    /\ nops < MaxOps
    /\ \E start \in Positions, end \in Positions, t \in Texts :
         /\ \E o \in ReplaceOutcomes(rope, start, end, Utf8(t)) :
              rope' = o.rope /\ err' = o.err
         /\ ref' = RefReplace(ref, start, end, t)
         /\ last' = [op |-> "replace", start |-> start, end |-> end, text |-> t,
                     len |-> len_chars(rope), undo |-> FALSE]
    /\ nops' = nops + 1
    /\ UNCHANGED <<leaf, borrows, other, res, buf>>

\* Spec: the rope under insert and remove.
Next == Insert \/ Remove

Spec == Init /\ [][Next]_vars

\* SpecWchar: the rope under insert_at_wchar and remove.
\* The UTF-16 offsets that fall on a scalar boundary of the reference string.
RefWcharOf(r, k) == k + RefPairs(SubSeq(r, 1, k))

RefBoundaries(r) == {RefWcharOf(r, k) : k \in 0..Len(r)}

\* The char position of the UTF-16 offset w, a boundary of r.
RefCharOf(r, w) == CHOOSE k \in 0..Len(r) : RefWcharOf(r, k) = w

\* What insert_at_wchar leaves behind and returns.
WcharOutcome(x) == [rope |-> RopeOf(x.m), err |-> x.m.err, ret |-> x.ret]

InsertAtWcharWith(r, w, contents, n) ==
    {WcharOutcome(insert_at_wchar(r, w, contents, hs)) : hs \in HeightSeqs(n)}

InsertAtWcharOutcomes(r, w, contents) ==
    InsertAtWcharWith(r, w, contents,
        NodesCreated(insert_at_wchar(r, w, contents, Ones(MaxNewNodes(contents))).m,
                     MaxNewNodes(contents)))

\* insert_at_wchar at an offset on a scalar boundary, or past the end (the
\* documentation leaves the other offsets undefined).
InsertAtWchar ==
    /\ err = NoErr
    /\ nops < MaxOps
    /\ \E w \in RefBoundaries(ref) \cup {len_wchars(rope) + 1}, t \in Texts :
         /\ \E o \in InsertAtWcharOutcomes(rope, w, Utf8(t)) :
              /\ rope' = o.rope
              /\ err' = o.err
              /\ last' = [op |-> "insert_at_wchar", start |-> w, end |-> w, text |-> t,
                          len |-> len_chars(rope), undo |-> FALSE, ret |-> o.ret,
                          at |-> RefCharOf(ref, Min(w, RefWcharOf(ref, Len(ref))))]
         /\ ref' = RefInsert(ref, RefCharOf(ref, Min(w, RefWcharOf(ref, Len(ref)))), t)
    /\ nops' = nops + 1
    /\ UNCHANGED <<leaf, borrows, other, res, buf>>

NextWchar == InsertAtWchar \/ Remove

SpecWchar == Init /\ [][NextWchar]_vars

\* SpecReplace: the rope under insert, remove and replace.
NextReplace == Insert \/ Remove \/ Replace

SpecReplace == Init /\ [][NextReplace]_vars

(***************************************************************************)
(* SpecBuf: a JumpRopeBuf and a plain rope under the same edits            *)
(***************************************************************************)

FlushHeights(b) == MaxNewNodes(b.op.ins_content)

MaxBufOps == 2

BufTexts == { <<ScalarA>>, <<ScalarA, ScalarB>>, <<ScalarE, ScalarP>> }

\* The outcomes of the buffered operations over the heights the flush may draw.
BufInsertWith(b, pos, contents, n) ==
    {BufOf(buf_insert(b, pos, contents, hb)) : hb \in HeightSeqs(n)}

BufInsertOutcomes(b, pos, contents) ==
    BufInsertWith(b, pos, contents,
                  NodesCreated(buf_insert(b, pos, contents, Ones(FlushHeights(b))),
                               FlushHeights(b)))

BufRemoveWith(b, start, end, n) ==
    {BufOf(buf_remove(b, start, end, hb)) : hb \in HeightSeqs(n)}

BufRemoveOutcomes(b, start, end) ==
    BufRemoveWith(b, start, end,
                  NodesCreated(buf_remove(b, start, end, Ones(FlushHeights(b))),
                               FlushHeights(b)))

BufBorrowWith(b, n) == {BufOf(buf_borrow(b, hb)) : hb \in HeightSeqs(n)}

BufBorrowOutcomes(b) ==
    BufBorrowWith(b, NodesCreated(buf_borrow(b, Ones(FlushHeights(b))),
                                  FlushHeights(b)))

BufInsert ==
    /\ err = NoErr /\ buf.err = NoErr
    /\ nops < MaxBufOps
    /\ \E pos \in Positions, t \in BufTexts :
         /\ \E o \in InsertOutcomes(rope, pos, Utf8(t)) :
              rope' = o.rope /\ err' = o.err
         /\ buf' \in BufInsertOutcomes(buf, pos, Utf8(t))
         /\ ref' = RefInsert(ref, pos, t)
         /\ last' = [op |-> "insert", start |-> pos, end |-> pos, text |-> t,
                     len |-> len_chars(rope), undo |-> FALSE]
    /\ nops' = nops + 1
    /\ UNCHANGED <<leaf, borrows, other, res>>

BufRemove ==
    /\ err = NoErr /\ buf.err = NoErr
    /\ nops < MaxBufOps
    /\ \E start \in Positions, end \in Positions :
         /\ \E o \in {Outcome(remove(rope, start, end))} :
              rope' = o.rope /\ err' = o.err
         /\ buf' \in BufRemoveOutcomes(buf, start, end)
         /\ ref' = RefRemove(ref, start, end)
         /\ last' = [op |-> "remove", start |-> start, end |-> end,
                     text |-> <<>>, len |-> len_chars(rope),
                     undo |-> UndoesLast(start, end)]
    /\ nops' = nops + 1
    /\ UNCHANGED <<leaf, borrows, other, res>>

\* borrow(): the buffered op is flushed into the rope of the JumpRopeBuf.
BufBorrow ==
    /\ err = NoErr /\ buf.err = NoErr
    /\ ~op_is_empty(buf.op)
    /\ buf' \in BufBorrowOutcomes(buf)
    /\ UNCHANGED <<leaf, borrows, rope, err, ref, nops, last, other, res>>

NextBuf == BufInsert \/ BufRemove \/ BufBorrow

SpecBuf == Init /\ [][NextBuf]_vars

(***************************************************************************)
(* SpecMerge: a JumpRopeBuf made by new_from_str, beside the string its    *)
(* edits make; the plain rope stays as it was made                         *)
(***************************************************************************)

\* JumpRopeBuf::with_rope
with_rope(r) == [rope |-> r, op |-> BufferedOp_new, err |-> NoErr]

MaxMergeOps == 2

\* The strings the buffer is made from.
MergeStarts == { <<ScalarA, ScalarE, ScalarB>>, <<ScalarE, ScalarP, ScalarA>> }

MergeTexts == { <<ScalarA>>, <<ScalarE, ScalarP>> }

\* JumpRopeBuf::new_from_str(s)
InitMerge ==
    /\ \E s \in MergeStarts :
         \E o \in InsertOutcomes(new_with_rng(<<>>), 0, Utf8(s)) :
            /\ rope = o.rope
            /\ buf = with_rope(o.rope)
            /\ err = o.err
            /\ ref = s
    /\ nops = 0
    /\ last = NoOp
    /\ other = NoRope
    /\ res = NoRes
    /\ borrows = 0
    /\ leaf = GapBuffer_new

MergePositions == 0..(Len(ref) + 1)

\* What an edit of the buffer leaves; last.len is the length of the content
\* before it.
MergeStep(name, start, end, t) ==
    /\ last' = [op |-> name, start |-> start, end |-> end, text |-> t,
                len |-> Len(ref), undo |-> FALSE]
    /\ nops' = nops + 1
    /\ UNCHANGED <<leaf, borrows, rope, err, other, res>>

MergeInsert ==
    /\ buf.err = NoErr
    /\ nops < MaxMergeOps
    /\ \E pos \in MergePositions, t \in MergeTexts :
         /\ buf' \in BufInsertOutcomes(buf, pos, Utf8(t))
         /\ ref' = RefInsert(ref, pos, t)
         /\ MergeStep("insert", pos, pos, t)

MergeRemove ==
    /\ buf.err = NoErr
    /\ nops < MaxMergeOps
    /\ \E start \in MergePositions, end \in MergePositions :
         /\ buf' \in BufRemoveOutcomes(buf, start, end)
         /\ ref' = RefRemove(ref, start, end)
         /\ MergeStep("remove", start, end, <<>>)

NextMerge == MergeInsert \/ MergeRemove

SpecMerge == InitMerge /\ [][NextMerge]_vars

(***************************************************************************)
(* SpecBufRead: the JumpRopeBuf under edits and the methods that read it   *)
(***************************************************************************)

\* s with t inserted before its scalar min(pos, len), and s without the
\* scalars in [start, min(end, len)): the edits as a String takes them.
StrInsert(s, pos, t) ==
    Slice(s, 0, char_to_byte_idx(s, Min(pos, count_chars(s))))
      \o t
      \o Slice(s, char_to_byte_idx(s, Min(pos, count_chars(s))), Len(s))

StrRemove(s, start, end) ==
    IF start >= Min(end, count_chars(s)) THEN s
    ELSE Slice(s, 0, char_to_byte_idx(s, start))
           \o Slice(s, char_to_byte_idx(s, Min(end, count_chars(s))), Len(s))

\* The logical content of the buffer b: the content of its rope with the
\* buffered op applied.
Logical(b) ==
    IF op_is_empty(b.op) THEN to_string(b.rope)
    ELSE IF b.op.kind = "Ins"
    THEN StrInsert(to_string(b.rope), b.op.start, b.op.ins_content)
    ELSE StrRemove(to_string(b.rope), b.op.start, b.op.end)

\* The number of heights a flush of b draws.
FlushDraws(b) == NodesCreated(flush_mut(b, Ones(FlushHeights(b))), FlushHeights(b))

\* The record of a reading method: what it returned, the content of the rope
\* it exposed and, in len, the length of the op that was pending.
ReadOp(name, ret, seen) ==
    [op |-> name, start |-> 0, end |-> 0, text |-> <<>>, len |-> op_len(buf.op),
     undo |-> FALSE, ret |-> ret, seen |-> seen]

BufLenBytes ==
    /\ err = NoErr /\ buf.err = NoErr
    /\ \E hb \in HeightSeqs(FlushDraws(buf)) :
         \E x \in {buf_len_bytes(buf, hb)} :
            /\ buf' = x.inner
            /\ last' = ReadOp("len_bytes", x.ret, <<>>)
    /\ UNCHANGED <<leaf, borrows, rope, err, ref, nops, other, res>>

BufReadBorrow ==
    /\ err = NoErr /\ buf.err = NoErr
    /\ \E hb \in HeightSeqs(FlushDraws(buf)) :
         \E f \in {BufOf(buf_borrow(buf, hb))} :
            /\ buf' = f
            /\ last' = ReadOp("borrow", 0, to_string(f.rope))
    /\ UNCHANGED <<leaf, borrows, rope, err, ref, nops, other, res>>

BufAsMut ==
    /\ err = NoErr /\ buf.err = NoErr
    /\ \E hb \in HeightSeqs(FlushDraws(buf)) :
         \E f \in {BufOf(buf_as_mut(buf, hb))} :
            /\ buf' = f
            /\ last' = ReadOp("as_mut", 0, to_string(f.rope))
    /\ UNCHANGED <<leaf, borrows, rope, err, ref, nops, other, res>>

\* into_inner; the rope returned is wrapped again (From<JumpRope>, with_rope)
\* so that the run goes on.
BufIntoInner ==
    /\ err = NoErr /\ buf.err = NoErr
    /\ \E hb \in HeightSeqs(FlushDraws(buf)) :
         \E f \in {BufOf(into_inner(buf, hb))} :
            /\ buf' = [rope |-> f.rope, op |-> BufferedOp_new, err |-> f.err]
            /\ last' = ReadOp("into_inner", 0, to_string(f.rope))
    /\ UNCHANGED <<leaf, borrows, rope, err, ref, nops, other, res>>

BufToString ==
    /\ err = NoErr /\ buf.err = NoErr
    /\ \E hb \in HeightSeqs(FlushDraws(buf)) :
         \E x \in {buf_to_string(buf, hb)} :
            /\ buf' = x.inner
            /\ last' = ReadOp("to_string", x.ret, x.ret)
    /\ UNCHANGED <<leaf, borrows, rope, err, ref, nops, other, res>>

\* buf == s for the content of the plain rope and for the texts
BufEqStr ==
    /\ err = NoErr /\ buf.err = NoErr
    /\ \E hb \in HeightSeqs(FlushDraws(buf)) :
         \E s \in {to_string(rope)} \cup {Utf8(t) : t \in BufTexts} :
            \E x \in {buf_eq_str(buf, s, hb)} :
               /\ buf' = x.inner
               /\ last' = ReadOp("eq_str", x.ret, to_string(x.inner.rope))
    /\ UNCHANGED <<leaf, borrows, rope, err, ref, nops, other, res>>

NextBufRead ==
    \/ BufInsert \/ BufRemove
    \/ BufLenBytes \/ BufReadBorrow \/ BufAsMut \/ BufIntoInner \/ BufToString \/ BufEqStr

SpecBufRead == Init /\ [][NextBufRead]_vars

(***************************************************************************)
(* SpecGap: one GapBuffer under its own operations                         *)
(***************************************************************************)

\* The record of a call: gap is where the gap stood before it, in scalars.
GapOp(name, a, b, t) ==
    [op |-> name, start |-> a, end |-> b, text |-> t, len |-> len_bytes_gb(leaf),
     undo |-> FALSE, gap |-> leaf.gap_start_chars]

\* What a GapBuffer method leaves: the buffer and the panic.
GapStep(x, op) ==
    /\ leaf' = x.str
    /\ err' = x.err
    /\ last' = op
    /\ UNCHANGED <<rope, ref, nops, other, res, buf, borrows>>

\* move_gap to a byte position of the buffer's capacity
GapMove ==
    /\ err = NoErr
    /\ \E p \in 0..NODE_STR_SIZE :
         GapStep(move_gap(leaf, p), GapOp("move_gap", p, p, <<>>))

GapInsertInGap ==
    /\ err = NoErr
    /\ \E t \in Texts :
         GapStep(insert_in_gap(leaf, Utf8(t)), GapOp("insert_in_gap", 0, 0, t))

\* try_insert: Err(()) is returned, not a panic, and leaves the buffer as it is.
GapTryInsert ==
    /\ err = NoErr
    /\ \E p \in 0..NODE_STR_SIZE, t \in Texts :
         \E x \in {try_insert(leaf, p, Utf8(t))} :
            GapStep(IF Len(Utf8(t)) > leaf.gap_len THEN GbOk(leaf, 0) ELSE x,
                    GapOp("try_insert", p, p, t))

\* remove_chars(pos, del_len) inside the scalars of the buffer
GapRemoveChars ==
    /\ err = NoErr
    /\ \E n \in {count_chars(start_bytes(leaf)) + count_chars(end_bytes(leaf))} :
         \E pos \in 0..n :
            \E del_len \in 0..(n - pos) :
               GapStep(remove_chars(leaf, pos, del_len),
                       GapOp("remove_chars", pos, pos + del_len, <<>>))

GapTakeRest ==
    /\ err = NoErr
    /\ GapStep(take_rest(leaf), GapOp("take_rest", 0, 0, <<>>))

NextGap == GapMove \/ GapInsertInGap \/ GapTryInsert \/ GapRemoveChars \/ GapTakeRest

SpecGap == Init /\ [][NextGap]_vars

(***************************************************************************)
(* SpecBorrow: a JumpRopeBuf, the Refs borrowed from it and their drops    *)
(***************************************************************************)

\* insert and remove take &mut self: no Ref is alive when they are called.
InsertUnborrowed == borrows = 0 /\ BufInsert

RemoveUnborrowed == borrows = 0 /\ BufRemove

\* let r = buf.borrow(); r is kept.
BorrowRef ==
    /\ err = NoErr /\ buf.err = NoErr
    /\ \E hb \in HeightSeqs(FlushDraws(buf)) :
         \E x \in {borrow_ref(buf, borrows, hb)} :
            /\ buf' = x.inner
            /\ borrows' = x.refs
            /\ last' = ReadOp("borrow_ref", borrows, to_string(x.inner.rope))
    /\ UNCHANGED <<leaf, rope, err, ref, nops, other, res>>

\* drop(r)
DropRef ==
    /\ err = NoErr /\ buf.err = NoErr
    /\ borrows > 0
    /\ borrows' = borrows - 1
    /\ last' = ReadOp("drop_ref", borrows, <<>>)
    /\ UNCHANGED <<leaf, rope, err, ref, nops, other, res, buf>>

NextBorrow == InsertUnborrowed \/ RemoveUnborrowed \/ BorrowRef \/ DropRef

SpecBorrow == Init /\ [][NextBorrow]_vars

(***************************************************************************)
(* SpecBufEq: two JumpRopeBufs, edited and compared; `other` is the second *)
(***************************************************************************)

MaxBufEqOps == 3

BufEqTexts == { <<ScalarA>>, <<ScalarE>>, <<ScalarE, ScalarA>> }

InitBufEq ==
    /\ rope = new_with_rng(<<>>)
    /\ other = JumpRopeBuf_new
    /\ err = NoErr
    /\ ref = <<>>
    /\ nops = 0
    /\ last = NoOp
    /\ res = NoRes
    /\ buf = JumpRopeBuf_new
    /\ borrows = 0
    /\ leaf = GapBuffer_new

\* insert and remove on one buffer b, inside its content
BufEqEdits(b) ==
    UNION { BufInsertOutcomes(b, pos, Utf8(t)) :
              pos \in 0..buf_len_chars(b).ret, t \in BufEqTexts }
      \cup UNION { BufRemoveOutcomes(b, pos, pos + 1) : pos \in 0..(buf_len_chars(b).ret - 1) }

BufEqEditA ==
    /\ buf.err = NoErr /\ other.err = NoErr
    /\ nops < MaxBufEqOps
    /\ buf' \in BufEqEdits(buf)
    /\ nops' = nops + 1
    /\ res' = NoRes
    /\ last' = [NoOp EXCEPT !.op = "edit"]
    /\ UNCHANGED <<leaf, borrows, rope, err, ref, other>>

BufEqEditB ==
    /\ buf.err = NoErr /\ other.err = NoErr
    /\ nops < MaxBufEqOps
    /\ other' \in BufEqEdits(other)
    /\ nops' = nops + 1
    /\ res' = NoRes
    /\ last' = [NoOp EXCEPT !.op = "edit"]
    /\ UNCHANGED <<leaf, borrows, rope, err, ref, buf>>

\* buf == buf
BufCompareSelf ==
    /\ buf.err = NoErr /\ other.err = NoErr
    /\ \E ha \in HeightSeqs(FlushDraws(buf)) :
         \E x \in {buf_eq(buf, buf, TRUE, ha, ha)} :
            /\ buf' = x.a
            /\ res' = [eq |-> [ret |-> x.ret, err |-> x.err], eq_str |-> EqOk(FALSE),
                       done |-> TRUE]
            /\ last' = [NoOp EXCEPT !.op = "eq_self"]
    /\ UNCHANGED <<leaf, borrows, rope, err, ref, nops, other>>

\* buf == other
BufCompare ==
    /\ buf.err = NoErr /\ other.err = NoErr
    /\ \E ha \in HeightSeqs(FlushDraws(buf)), hb \in HeightSeqs(FlushDraws(other)) :
         \E x \in {buf_eq(buf, other, FALSE, ha, hb)} :
            /\ buf' = [x.a EXCEPT !.err = x.err]
            /\ other' = x.b
            /\ res' = [eq |-> [ret |-> x.ret, err |-> x.err], eq_str |-> EqOk(FALSE),
                       done |-> TRUE]
            /\ last' = [NoOp EXCEPT !.op = "eq"]
    /\ UNCHANGED <<leaf, borrows, rope, err, ref, nops>>

NextBufEq == BufEqEditA \/ BufEqEditB \/ BufCompareSelf \/ BufCompare

SpecBufEq == InitBufEq /\ [][NextBufEq]_vars

(***************************************************************************)
(* SpecEq: two ropes, edited apart and compared                            *)
(***************************************************************************)

MaxEqChars == 2

EqTexts == { <<ScalarA>>, <<ScalarE>>, <<ScalarP>> }

InitEq ==
    /\ rope = new_with_rng(<<>>)
    /\ other = new_with_rng(<<>>)
    /\ err = NoErr
    /\ ref = <<>>
    /\ nops = 0
    /\ last = NoOp
    /\ res = NoRes
    /\ buf = JumpRopeBuf_new
    /\ borrows = 0
    /\ leaf = GapBuffer_new

\* insert on one rope r; the edited rope and the panic are returned.
EqEdits(r) ==
    UNION { InsertOutcomes(r, pos, Utf8(t)) :
              pos \in 0..len_chars(r),
              t \in {t \in EqTexts : len_chars(r) + Len(t) <= MaxEqChars} }

EqInsertA ==
    /\ err = NoErr
    /\ \E e \in EqEdits(rope) : rope' = e.rope /\ err' = e.err
    /\ res' = NoRes
    /\ UNCHANGED <<leaf, borrows, other, ref, nops, last, buf>>

EqInsertB ==
    /\ err = NoErr
    /\ \E e \in EqEdits(other) : other' = e.rope /\ err' = e.err
    /\ res' = NoRes
    /\ UNCHANGED <<leaf, borrows, rope, ref, nops, last, buf>>

\* rope == other, and rope == the content of other as a &str
Compare ==
    /\ err = NoErr
    /\ ~res.done
    /\ res' = [eq |-> eq(rope, other),
               eq_str |-> eq_str(rope, to_string(other)),
               done |-> TRUE]
    /\ UNCHANGED <<leaf, borrows, rope, other, err, ref, nops, last, buf>>

NextEq == EqInsertA \/ EqInsertB \/ Compare

SpecEq == InitEq /\ [][NextEq]_vars

(***************************************************************************)
(* SpecClone: a rope is built and cloned; then one of the two is edited or *)
(* dropped.  rope.nodes and other.nodes are the one memory both live in.   *)
(***************************************************************************)

MaxCloneOps == 2

CloneTexts == { <<ScalarA>>, <<ScalarE, ScalarP>> }

CloneBuild ==
    /\ other = NoRope
    /\ nops < MaxCloneOps
    /\ (Insert \/ Remove)

\* The outcomes of clone over the heights its nodes may draw.
CloneWith(r, n) == {Outcome(clone(r, hs)) : hs \in HeightSeqs(n)}

CloneOutcomes(r) ==
    CloneWith(r, NodesCreated(clone(r, Ones(r.num_bytes + 1)), r.num_bytes + 1))

Clone ==
    /\ err = NoErr
    /\ other = NoRope
    /\ \E o \in CloneOutcomes(rope) :
         /\ other' = o.rope
         /\ rope' = [rope EXCEPT !.nodes = o.rope.nodes]
         /\ err' = o.err
    /\ last' = [NoOp EXCEPT !.op = "clone"]
    /\ UNCHANGED <<leaf, borrows, ref, nops, res, buf>>

\* One edit of the rope r, which lives in the memory r.nodes.
CloneEdits(r) ==
    UNION { InsertOutcomes(r, pos, Utf8(t)) : pos \in 0..len_chars(r), t \in CloneTexts }
    \cup { Outcome(remove(r, start, end)) :
             start \in 0..len_chars(r), end \in 1..len_chars(r) }

MutateOrig ==
    /\ err = NoErr
    /\ last.op = "clone"
    /\ \E e \in CloneEdits(rope) :
         /\ rope' = e.rope
         /\ err' = e.err
         /\ other' = [other EXCEPT !.nodes = e.rope.nodes]
    /\ last' = [NoOp EXCEPT !.op = "mutate_orig"]
    /\ UNCHANGED <<leaf, borrows, ref, nops, res, buf>>

MutateClone ==
    /\ err = NoErr
    /\ last.op = "clone"
    /\ \E e \in CloneEdits(other) :
         /\ other' = e.rope
         /\ err' = e.err
         /\ rope' = [rope EXCEPT !.nodes = e.rope.nodes]
    /\ last' = [NoOp EXCEPT !.op = "mutate_clone"]
    /\ UNCHANGED <<leaf, borrows, ref, nops, res, buf>>

DropOrig ==
    /\ err = NoErr
    /\ last.op = "clone"
    /\ rope' = [NoRope EXCEPT !.nodes = drop(rope)]
    /\ other' = [other EXCEPT !.nodes = drop(rope)]
    /\ last' = [NoOp EXCEPT !.op = "drop_orig"]
    /\ UNCHANGED <<leaf, borrows, err, ref, nops, res, buf>>

DropClone ==
    /\ err = NoErr
    /\ last.op = "clone"
    /\ other' = [NoRope EXCEPT !.nodes = drop(other)]
    /\ rope' = [rope EXCEPT !.nodes = drop(other)]
    /\ last' = [NoOp EXCEPT !.op = "drop_clone"]
    /\ UNCHANGED <<leaf, borrows, err, ref, nops, res, buf>>

NextClone ==
    CloneBuild \/ Clone \/ MutateOrig \/ MutateClone \/ DropOrig \/ DropClone

SpecClone == Init /\ [][NextClone]_vars

(***************************************************************************)
(* Properties                                                              *)
(***************************************************************************)

\* C1: after any finite sequence of insert and remove operations, with every
\* height random_height may return, no operation has panicked and the content
\* of the rope equals the reference string edited the same way (insert at
\* char index min(pos, len); remove [start, min(end, len)) ).
C1_RefinesFlatString ==
    /\ last.op \in {"new", "insert", "remove"} => err = NoErr
    /\ err = NoErr => to_string(rope) = RefBytes(ref)

\* A rope of several leaves with a tower of the greatest height, reached by an
\* insert or a remove, holding at least two scalars.
C1_Witness ==
    /\ err = NoErr
    /\ last.op \in {"insert", "remove"}
    /\ nops = MaxOps
    /\ Len(ref) >= 2
    /\ Len(node_iter(rope)) >= 3
    /\ \E n \in DOMAIN rope.nodes :
         n # rope.head /\ rope.nodes[n].height = MAX_HEIGHT

\* C2: len_bytes, len_chars and len_wchars of every reachable rope equal the
\* UTF-8 byte count, the scalar count and the UTF-16 code unit count of the
\* content it should hold.
C2_LengthsMatch ==
    err = NoErr =>
        /\ len_bytes(rope) = Len(RefBytes(ref))
        /\ len_chars(rope) = RefLen(ref)
        /\ len_wchars(rope) = RefLen(ref) + RefPairs(ref)

\* A rope holding a scalar outside the basic plane beside shorter ones, so the
\* three lengths differ.
C2_Witness ==
    /\ err = NoErr
    /\ nops = MaxOps
    /\ len_wchars(rope) > len_chars(rope)
    /\ len_bytes(rope) > len_wchars(rope)
    /\ len_chars(rope) >= 3
    /\ last.op = "replace"

\* C3: after every sequence of buffered insert and remove calls, with any
\* positions, also past the end of the content, the JumpRopeBuf has not
\* panicked and the string of its rope once flushed (into_inner) equals the
\* string of the plain rope the same calls were applied to.
C3_BufferedEqualsPlain ==
    err = NoErr =>
        /\ buf.err = NoErr
        /\ into_inner(buf, Ones(FlushHeights(buf))).err = NoErr
        /\ to_string(into_inner(buf, Ones(FlushHeights(buf))).rope) = to_string(rope)

\* C4: rope == other, and rope == the string of other, return true when the
\* two character sequences are equal and false when they differ, and neither
\* comparison panics.
C4_EqDecidesEquality ==
    res.done =>
        /\ res.eq.err = NoErr
        /\ res.eq.ret = (to_string(rope) = to_string(other))
        /\ res.eq_str.err = NoErr
        /\ res.eq_str.ret = (to_string(rope) = to_string(other))

\* C5: replace(range, text) leaves the rope with the content and the three
\* lengths that remove(range) followed by insert(range.start, text) gives, for
\* every range and text, and does not panic.
C5_ReplaceIsRemoveThenInsert ==
    [][last'.op = "replace" =>
        \E r1 \in {Outcome(remove(rope, last'.start, last'.end))} :
          \E r2 \in {Outcome(insert(r1.rope, last'.start, Utf8(last'.text),
                                    Ones(MaxNewNodes(Utf8(last'.text)))))} :
            /\ err' = NoErr
            /\ r1.err = NoErr
            /\ r2.err = NoErr
            /\ to_string(rope') = to_string(r2.rope)
            /\ len_bytes(rope') = len_bytes(r2.rope)
            /\ len_chars(rope') = len_chars(r2.rope)
            /\ len_wchars(rope') = len_wchars(r2.rope)]_vars

\* C6: insert(pos, text) with pos > len_chars does not panic and has exactly
\* the effect of insert(len_chars, text): the text is appended at the end.
C6_InsertPastEndAppends ==
    [][(last'.op = "insert" /\ last'.start > len_chars(rope)) =>
        LET t == Utf8(last'.text)
            k == MaxNewNodes(t)
            n == NodesCreated(insert(rope, len_chars(rope), t, Ones(k)), k)
        IN /\ err' = NoErr
           /\ to_string(rope') = to_string(rope) \o t
           /\ \E hs \in HeightSeqs(n) :
                LET m == insert(rope, len_chars(rope), t, hs)
                IN m.err = NoErr /\ rope' = RopeOf(m)]_vars

C6_Witness ==
    /\ err = NoErr
    /\ last.op = "insert"
    /\ last.start > last.len
    /\ last.len >= 2
    /\ Len(last.text) = 2
    /\ Len(node_iter(rope)) >= 3

\* C7: remove(a..b) with b > len_chars removes exactly the scalars in
\* [a, len_chars), removes nothing when a >= len_chars, and never panics, also
\* on an empty rope.
C7_RemovePastEndTruncates ==
    [][(last'.op = "remove" /\ last'.end > len_chars(rope)) =>
        /\ err' = NoErr
        /\ to_string(rope') = Utf8(SubSeq(ref, 1, Min(last'.start, Len(ref))))
        /\ len_chars(rope') = Min(last'.start, len_chars(rope))
        /\ last'.start >= len_chars(rope) => rope' = rope]_vars

C7_Witness ==
    /\ err = NoErr
    /\ last.op = "remove"
    /\ last.end > last.len
    /\ last.start > 0
    /\ last.start + 2 <= last.len
    /\ Len(node_iter(rope)) >= 2

\* C8: insert(pos, "") for any pos and remove(a..a) for any a leave the rope
\* entirely unchanged: content, lengths, node chain, heights, skip entries and
\* the set of live nodes.
C8_EmptyEditsChangeNothing ==
    [][((last'.op = "insert" /\ last'.text = <<>>)
          \/ (last'.op = "remove" /\ last'.start = last'.end)) =>
        /\ err' = NoErr
        /\ rope' = rope]_vars

C8_Witness ==
    /\ err = NoErr
    /\ last.op = "insert"
    /\ last.text = <<>>
    /\ last.start > 0
    /\ last.start < last.len
    /\ Len(node_iter(rope)) >= 3

\* C9 as stated: for every char position p and every text s, insert(p, s)
\* followed by remove(p..p + count_chars(s)) restores the content.
C9_InsertThenRemoveRestores_AnyPosition ==
    [][last'.op = "insert" =>
        LET p == last'.start
            m == remove(rope', p, p + count_chars(Utf8(last'.text)))
        IN /\ err' = NoErr
           /\ m.err = NoErr
           /\ to_string(RopeOf(m)) = to_string(rope)]_vars

\* C9: for every char position p <= len_chars and every text s, insert(p, s)
\* followed by remove(p..p + count_chars(s)) restores the content the rope had
\* before the insert.
C9_InsertThenRemoveRestores ==
    [][(last'.op = "insert" /\ last'.start <= len_chars(rope)) =>
        LET p == last'.start
            m == remove(rope', p, p + count_chars(Utf8(last'.text)))
        IN /\ err' = NoErr
           /\ m.err = NoErr
           /\ to_string(RopeOf(m)) = to_string(rope)]_vars

\* The remove that undoes the preceding insert has run, inside the content.
C9_Witness ==
    /\ err = NoErr
    /\ last.op = "remove"
    /\ last.undo
    /\ last.start > 0
    /\ last.end < last.len
    /\ last.end - last.start = 2

\* The nodes of the rope r with all their fields, by address.
Structure(r) == [n \in SeqToSet(node_iter(r)) |-> r.nodes[n]]

C11_SubstringsInOrder ==
    err = NoErr =>
        \E c \in {substrings_with_len(rope)} :
            /\ Concat([i \in 1..Len(c) |-> c[i][1]]) = to_string(rope)
            /\ to_string(rope) = RefBytes(ref)
            /\ \A i \in 1..Len(c) :
                 /\ c[i][1] # <<>>
                 /\ c[i][2] > 0
                 /\ c[i][2] = count_chars(c[i][1])

\* Several leaves, one of them with an empty half that the iterator passes
\* over and one with text on both sides of its gap, scalars of several bytes.
C11_Witness ==
    /\ err = NoErr
    /\ nops = MaxOps
    /\ Len(node_iter(rope)) >= 2
    /\ Len(substrings_with_len(rope)) >= 3
    /\ Len(substrings_with_len(rope)) < 2 * Len(node_iter(rope))
    /\ len_bytes(rope) > len_chars(rope)

\* C12: for every 0 <= a <= b <= len_chars, slice_chars(a..b) and
\* slice_substrings(a..b) yield exactly the scalars at positions [a, b) of the
\* content, in order, without panic, each chunk with its number of scalars.
C12_SliceYieldsRange ==
    err = NoErr =>
        \A a \in 0..len_chars(rope) : \A b \in a..len_chars(rope) :
            /\ slice_chars(rope, a, b) = [chars |-> Utf8(SubSeq(ref, a + 1, b)), err |-> NoErr]
            /\ \E x \in {slice_substrings(rope, a, b)} :
                 x.err = NoErr /\ Concat(x.items) = Utf8(SubSeq(ref, a + 1, b))
            /\ \E x \in {slice_substrings_with_len(rope, a, b)} :
                 \A i \in 1..Len(x.items) : x.items[i][2] = count_chars(x.items[i][1])

\* Several leaves; one that is not the head has text on both sides of its gap,
\* so slices start before, at and after a gap and cross node boundaries.
C12_Witness ==
    /\ err = NoErr
    /\ Len(node_iter(rope)) >= 2
    /\ len_chars(rope) >= 4
    /\ len_bytes(rope) > len_chars(rope)
    /\ \E n \in SeqToSet(node_iter(rope)) :
         /\ n # rope.head
         /\ rope.nodes[n].str.gap_start_chars > 0
         /\ num_chars(rope.nodes[n]) > rope.nodes[n].str.gap_start_chars

\* C13: for every k in [0, len_chars], chars_to_wchars(k) is k plus the
\* number of scalars outside the basic plane among the first k, and
\* wchars_to_chars takes it back to k; the two conversions map len_chars and
\* len_wchars to each other; none panics.
C13_WcharRoundTrip ==
    err = NoErr =>
        /\ \A k \in 0..len_chars(rope) :
             /\ chars_to_wchars(rope, k) = [ret |-> RefWcharOf(ref, k), err |-> NoErr]
             /\ wchars_to_chars(rope, chars_to_wchars(rope, k).ret)
                  = [ret |-> k, err |-> NoErr]
        /\ chars_to_wchars(rope, len_chars(rope)).ret = len_wchars(rope)
        /\ wchars_to_chars(rope, len_wchars(rope)) = [ret |-> len_chars(rope), err |-> NoErr]

\* Several leaves, a scalar outside the basic plane counted before the gap
\* of one of them, and more text after that scalar.
C13_Witness ==
    /\ err = NoErr
    /\ Len(node_iter(rope)) >= 2
    /\ len_chars(rope) >= 2
    /\ chars_to_wchars(rope, len_chars(rope) - 1).ret > len_chars(rope) - 1
    /\ \E n \in SeqToSet(node_iter(rope)) :
         rope.nodes[n].str.gap_start_surrogate_pairs > 0

\* C14: insert_at_wchar(w, text), w on a scalar boundary, does not panic,
\* inserts text at the char position of the UTF-16 offset min(w, len_wchars)
\* and returns that position.
C14_InsertAtWcharReturnsPosition ==
    last.op = "insert_at_wchar" =>
        /\ err = NoErr
        /\ to_string(rope) = RefBytes(ref)
        /\ last.ret = last.at

\* C15: in every state of a JumpRopeBuf reached by insert and remove calls,
\* len_chars() returns the number of scalars of the logical content, without
\* flushing and without panic.
C15_BufLenChars ==
    (err = NoErr /\ buf.err = NoErr) =>
        buf_len_chars(buf)
          = [inner |-> buf, ret |-> count_chars(Logical(buf)), err |-> NoErr]

\* C16: is_empty() returns true exactly when the logical content is empty,
\* whatever the pending op, without flushing it and without panic.
C16_BufIsEmpty ==
    (err = NoErr /\ buf.err = NoErr) =>
        \E x \in {buf_is_empty(buf)} :
            /\ x.err = NoErr
            /\ x.inner = buf
            /\ x.ret = (Logical(buf) = <<>>)

\* C17: len_bytes() returns the UTF-8 length of the logical content; with a
\* pending insert the buffer is left as it was, with a pending delete the
\* delete is applied to the rope and the pending op cleared.
C17_BufLenBytes ==
    [][last'.op = "len_bytes" =>
        \E f \in {Outcome(remove(buf.rope, buf.op.start, buf.op.end))} :
            /\ buf'.err = NoErr
            /\ last'.ret = Len(Logical(buf))
            /\ buf.op.kind = "Ins" => buf' = buf
            /\ buf.op.kind = "Del" =>
                 /\ op_is_empty(buf'.op)
                 /\ f.err = NoErr
                 /\ buf'.rope = f.rope
                 /\ to_string(buf'.rope) = Logical(buf)]_vars

\* len_bytes() has answered with a delete pending, now applied, and content
\* left in the rope.
C17_Witness ==
    /\ last.op = "len_bytes"
    /\ last.len > 0
    /\ buf.op.kind = "Del"
    /\ op_is_empty(buf.op)
    /\ buf.err = NoErr
    /\ last.ret > 0
    /\ last.ret = len_bytes(buf.rope)

\* C18: borrow(), as_mut(), into_inner(), to_string() and the comparison with
\* a string apply the pending op first: the rope they expose holds the logical
\* content and the pending op is empty.
C18_ReadsFlushFirst ==
    [][last'.op \in {"borrow", "as_mut", "into_inner", "to_string", "eq_str"} =>
        \E want \in {Logical(buf)} :
            /\ op_is_empty(buf'.op)
            /\ to_string(buf'.rope) = want
            /\ last'.seen = want
            /\ last'.op # "eq_str" => buf'.err = NoErr]_vars

\* to_string() has run with an op pending and shown content.
C18_Witness ==
    /\ last.op = "to_string"
    /\ last.len > 0
    /\ last.seen # <<>>
    /\ buf.err = NoErr
    /\ op_is_empty(buf.op)
    /\ Len(node_iter(buf.rope)) >= 2

\* C19: in every state reached by public operations the head's height h
\* satisfies 1 <= h <= MAX_HEIGHT, so that the height assertions of check()
\* hold, for every height random_height can return.
C19_HeadHeightInRange ==
    err = NoErr =>
        /\ head_of(rope).height >= 1
        /\ head_of(rope).height <= MAX_HEIGHT
        /\ check(rope) \notin {"check: head.height >= 1",
                               "check: head.height < MAX_HEIGHT + 1"}

\* C20: a JumpRopeBuf compared with itself gives true without panic, an op
\* pending or not; two distinct buffers compared are both flushed and the
\* comparison returns, true exactly when their logical contents are equal.
C20_BufEq ==
    [][/\ last'.op = "eq_self" =>
            /\ res'.eq = EqOk(TRUE)
            /\ buf'.err = NoErr
       /\ last'.op = "eq" =>
            /\ res'.eq = EqOk(Logical(buf) = Logical(other))
            /\ op_is_empty(buf'.op)
            /\ op_is_empty(other'.op)
            /\ to_string(buf'.rope) = Logical(buf)
            /\ to_string(other'.rope) = Logical(other)]_vars

\* C21: borrow() panics when a Ref of an earlier borrow() is still alive,
\* an op pending or not, and leaves the buffer as it was; with no Ref alive
\* it does not panic and the rope it lends holds the logical content, the
\* pending op applied and cleared.
C21_BorrowWhileBorrowedPanics ==
    [][last'.op = "borrow_ref" =>
        IF borrows > 0
        THEN /\ buf'.err # NoErr
             /\ borrows' = borrows
             /\ buf'.rope = buf.rope /\ buf'.op = buf.op
        ELSE /\ buf'.err = NoErr
             /\ borrows' = 1
             /\ op_is_empty(buf'.op)
             /\ to_string(buf'.rope) = Logical(buf)
             /\ last'.seen = Logical(buf)]_vars

\* A second borrow() has panicked on a buffer with content, no op pending
\* and the first Ref alive.
C21_Witness ==
    /\ last.op = "borrow_ref"
    /\ last.ret = 1
    /\ last.len = 0
    /\ borrows = 1
    /\ buf.err # NoErr
    /\ op_is_empty(buf.op)
    /\ len_chars(buf.rope) > 0

(***************************************************************************)
(* The skip index                                                          *)
(***************************************************************************)

\* The chain of level l from node n on: the sums of its skip counters, and
\* whether it ends at null within `fuel` steps over nodes that have level l.
RECURSIVE ChainSum(_, _, _, _)
ChainSum(r, n, l, fuel) ==
    IF n = NULL THEN [chars |-> 0, pairs |-> 0, ends |-> TRUE]
    ELSE IF fuel = 0 \/ n \notin DOMAIN r.nodes THEN [chars |-> 0, pairs |-> 0, ends |-> FALSE]
    ELSE IF l >= r.nodes[n].height THEN [chars |-> 0, pairs |-> 0, ends |-> FALSE]
    ELSE LET c == ChainSum(r, r.nodes[n].nexts[l].node, l, fuel - 1)
         IN [chars |-> r.nodes[n].nexts[l].skip_chars + c.chars,
             pairs |-> r.nodes[n].nexts[l].skip_pairs + c.pairs,
             ends |-> c.ends]

\* C22: at every level below the head's height the chain from the head ends
\* at null and its skip_chars sum to len_chars, its skip_pairs to the number
\* of scalars above U+FFFF in the rope; no skip counter of a linked node is
\* negative (wrapped).
C22_SkipSumsPerLevel ==
    err = NoErr =>
        /\ len_chars(rope) = Len(ref)
        /\ \A l \in 0..(head_of(rope).height - 1) :
             ChainSum(rope, rope.head, l, Len(node_iter(rope)))
               = [chars |-> Len(ref), pairs |-> RefPairs(ref), ends |-> TRUE]
        /\ \A n \in SeqToSet(node_iter(rope)) :
             \A l \in 0..(rope.nodes[n].height - 1) :
                /\ rope.nodes[n].nexts[l].skip_chars >= 0
                /\ rope.nodes[n].nexts[l].skip_pairs >= 0

\* After a remove: three leaves or more, towers of two different heights
\* behind the head, and a scalar above U+FFFF in the rope.
C22_Witness ==
    /\ err = NoErr
    /\ last.op = "remove" /\ last.start < last.end /\ last.start < last.len
    /\ Len(node_iter(rope)) >= 3
    /\ RefPairs(ref) > 0
    /\ \E a, b \in SeqToSet(node_iter(rope)) \ {rope.head} :
         rope.nodes[a].height < rope.nodes[b].height

\* The scalars stored in the leaf of node n, counted on its bytes.
NodeChars(r, n) ==
    count_chars(start_bytes(r.nodes[n].str)) + count_chars(end_bytes(r.nodes[n].str))

RECURSIVE CharsOfNodes(_, _)
CharsOfNodes(r, ns) ==
    IF ns = <<>> THEN 0 ELSE NodeChars(r, Head(ns)) + CharsOfNodes(r, Tail(ns))

\* The index in the chain ns of the first node behind ns[i] that is taller
\* than l levels, Len(ns) + 1 if there is none.
NextTaller(r, ns, i, l) ==
    IF \E j \in (i + 1)..Len(ns) : r.nodes[ns[j]].height > l
    THEN CHOOSE j \in (i + 1)..Len(ns) :
            /\ r.nodes[ns[j]].height > l
            /\ \A k \in (i + 1)..(j - 1) : r.nodes[ns[k]].height <= l
    ELSE Len(ns) + 1

\* The forward pointer of ns[i] at level l is right in chain ns.
PointsToNextTaller(r, ns, i, l, k) ==
    /\ r.nodes[ns[i]].nexts[l].node = (IF k > Len(ns) THEN NULL ELSE ns[k])
    /\ r.nodes[ns[i]].nexts[l].skip_chars = CharsOfNodes(r, SubSeq(ns, i, k - 1))

\* C23: the level-0 chain from the head is finite and without repetition,
\* and for every node n of it (the head too) and every level l < n.height
\* the level-l pointer of n is the first node behind n of height > l, null
\* if there is none, with skip_chars the scalars stored from n up to it.
C23_PointersAreNearestTaller ==
    err = NoErr =>
        \E ns \in {node_iter(rope)} :
            /\ Len(ns) >= 1
            /\ rope.nodes[ns[Len(ns)]].nexts[0].node = NULL
            /\ \A i, j \in 1..Len(ns) : i # j => ns[i] # ns[j]
            /\ \A i \in 1..Len(ns) :
                 \A l \in 0..(rope.nodes[ns[i]].height - 1) :
                    PointsToNextTaller(rope, ns, i, l, NextTaller(rope, ns, i, l))

\* After a remove: a node of height 1 between two taller ones, so that a
\* pointer of level 1 passes over a node.
C23_Witness ==
    /\ err = NoErr
    /\ last.op = "remove" /\ last.start < last.end /\ last.start < last.len
    /\ \E ns \in {node_iter(rope)} :
         \E i \in 2..(Len(ns) - 2) :
            /\ rope.nodes[ns[i]].height >= 2
            /\ rope.nodes[ns[i + 1]].height = 1
            /\ rope.nodes[ns[i + 2]].height >= 2

\* Every node behind the head holds a scalar.
NonHeadNonEmpty(r) ==
    \A n \in SeqToSet(node_iter(r)) \ {r.head} :
        NodeChars(r, n) > 0 /\ ~is_empty_gb(r.nodes[n].str)

\* The nodes of chain ns that remove(start..end) leaves: the head, and the
\* nodes with a scalar outside start..end.
RECURSIVE Survivors(_, _, _, _, _)
Survivors(r, ns, at, start, end) ==
    IF ns = <<>> THEN <<>>
    ELSE (IF Head(ns) # r.head /\ start <= at /\ at + NodeChars(r, Head(ns)) <= end
          THEN <<>> ELSE <<Head(ns)>>)
           \o Survivors(r, Tail(ns), at + NodeChars(r, Head(ns)), start, end)

\* C24: every node behind the head holds at least one scalar, after every
\* insert and every remove; remove(start..end) unlinks exactly the nodes
\* behind the head whose scalars are all in the range, and frees them.
C24_NonHeadNodesNonEmpty ==
    [][err' = NoErr =>
        /\ NonHeadNonEmpty(rope')
        /\ last'.op = "remove" =>
             /\ node_iter(rope')
                  = Survivors(rope, node_iter(rope), 0, last'.start,
                              Min(last'.end, len_chars(rope)))
             /\ DOMAIN rope'.nodes = SeqToSet(node_iter(rope'))]_vars

\* A remove has just freed a node that was allocated before another that is
\* still linked (its address is free again), and nodes behind the head remain.
C24_Witness ==
    /\ err = NoErr
    /\ last.op = "remove" /\ last.start < last.end
    /\ \E a \in DOMAIN rope.nodes : \E h \in 0..(a - 1) : h \notin DOMAIN rope.nodes
    /\ Len(node_iter(rope)) >= 2

(***************************************************************************)
(* The head node                                                           *)
(***************************************************************************)

\* The bytes stored in the leaf of node n.
NodeBytes(r, n) == start_bytes(r.nodes[n].str) \o end_bytes(r.nodes[n].str)

Max(S) == CHOOSE x \in S : \A y \in S : y <= x

C27_TopEntrySpansRope ==
    err = NoErr =>
        \E top \in {head_of(rope).nexts[head_of(rope).height - 1]} :
            /\ top.node = NULL
            /\ top.skip_chars = Len(ref)
            /\ top.skip_chars = CharsOfNodes(rope, node_iter(rope))
            /\ len_chars(rope) = top.skip_chars

\* The first insert has raised the head to its greatest height, over text in
\* the head and in new nodes.
C27_Witness ==
    /\ err = NoErr
    /\ last.op = "insert" /\ last.len = 0
    /\ head_of(rope).height = MAX_HEIGHT + 1
    /\ Len(node_iter(rope)) >= 2
    /\ len_chars(rope) >= 2

(***************************************************************************)
(* The leaf                                                                *)
(***************************************************************************)

\* The lead bytes of 4-byte scalars in the bytes s.
FourByteLeads(s) == Cardinality({i \in 1..Len(s) : s[i] >= 240})

\* The invariant of a gap buffer g.
GapInvariant(g) ==
    /\ g.gap_len \in 0..NODE_STR_SIZE
    /\ g.gap_start_bytes \in 0..(NODE_STR_SIZE - g.gap_len)
    /\ len_bytes_gb(g) = Len(start_bytes(g)) + Len(end_bytes(g))
    /\ len_bytes_gb(g) <= NODE_STR_SIZE
    /\ ValidUtf8(start_bytes(g))
    /\ ValidUtf8(end_bytes(g))
    /\ g.gap_start_chars = Len(SelectSeq(start_bytes(g), IsStartByte))
    /\ g.gap_start_surrogate_pairs = FourByteLeads(start_bytes(g))

\* C28: after every sequence of move_gap, insert_in_gap, try_insert,
\* remove_chars and take_rest that has not panicked, gap_start_chars is the
\* number of scalars before the gap, gap_start_surrogate_pairs the number of
\* 4-byte scalars before it, the text before and the text behind the gap
\* are whole scalars, and the bytes in use are CAP - gap_len <= CAP.
C28_GapBufferInvariant ==
    err = NoErr => GapInvariant(leaf)

\* A 2-byte scalar before the gap, text behind it, after a move of the gap.
C28_Witness ==
    /\ err = NoErr
    /\ last.op = "move_gap"
    /\ leaf.gap_start_bytes = 2
    /\ leaf.gap_start_chars = 1
    /\ leaf.gap_len > 0
    /\ end_bytes(leaf) # <<>>

(***************************************************************************)
(* Cursors                                                                 *)
(***************************************************************************)

\* The scalars stored in chain ns before its i-th node.
StartOf(r, ns, i) == CharsOfNodes(r, SubSeq(ns, 1, i - 1))

\* The index in chain ns of the last node taller than l levels that starts
\* at or before position pos; with `strictly`, that starts before pos, the
\* head (index 1) when there is none.
LastTallerAt(r, ns, l, pos, strictly) ==
    CHOOSE i \in 1..Len(ns) :
        LET ok(j) == /\ r.nodes[ns[j]].height > l
                     /\ \/ j = 1
                        \/ StartOf(r, ns, j) < pos
                        \/ (~strictly /\ StartOf(r, ns, j) = pos)
        IN ok(i) /\ \A j \in (i + 1)..Len(ns) : ~ok(j)

\* The walk to pos ended without a panic, and at level 0 names a node and
\* an offset into it that add up to pos.
CursorLandsAt(r, ns, c, pos) ==
    /\ c.err = NoErr
    /\ c.offset = c.cursor[0].skip_chars
    /\ \E i \in 1..Len(ns) :
         /\ c.cursor[0].node = ns[i]
         /\ StartOf(r, ns, i) + c.offset = pos
         /\ c.offset <= NodeChars(r, ns[i])

\* Every level below the head's height records the node of LastTallerAt
\* and the scalars from that node's start to pos.
CursorRecords(r, ns, c, pos, strictly) ==
    \A l \in 0..(head_of(r).height - 1) :
        \E i \in {LastTallerAt(r, ns, l, pos, strictly)} :
            /\ c.cursor[l].node = ns[i]
            /\ c.cursor[l].skip_chars = pos - StartOf(r, ns, i)

\* The cursors of both constructors, for both values of stick_end.
CursorsAt(r, pos) ==
    {<<mut_cursor_at_char(r, pos, TRUE), TRUE>>,
     <<mut_cursor_at_char(r, pos, FALSE), FALSE>>,
     <<old_cursor_at_char(r, pos, TRUE), TRUE>>,
     <<old_cursor_at_char(r, pos, FALSE), FALSE>>}

\* C29 as stated: for every char_pos <= len_chars() and both values of
\* stick_end the construction ends without a panic, at level 0 yields a
\* node and an offset with (scalars before the node) + offset = char_pos and
\* offset <= the node's scalars, and at every level records the last node
\* taller than the level that starts at or before char_pos.
C29_CursorRecordsLastNodeAtOrBefore ==
    err = NoErr =>
        \E ns \in {node_iter(rope)} :
            \A pos \in 0..len_chars(rope) :
                \A c \in CursorsAt(rope, pos) :
                    /\ CursorLandsAt(rope, ns, c[1], pos)
                    /\ CursorRecords(rope, ns, c[1], pos, FALSE)

\* C29: for every char_pos <= len_chars() and both values of stick_end the
\* construction ends without a panic (it never runs off the end of the
\* list), at level 0 yields a node and an offset with (scalars before the
\* node) + offset = char_pos and offset <= the node's scalars, and at every
\* level records the last node taller than the level that starts at or
\* before char_pos if stick_end is false, and the last one that starts
\* before char_pos (the head if there is none) if stick_end is true.
C29_CursorRecordsByStickEnd ==
    err = NoErr =>
        \E ns \in {node_iter(rope)} :
            \A pos \in 0..len_chars(rope) :
                \A c \in CursorsAt(rope, pos) :
                    /\ CursorLandsAt(rope, ns, c[1], pos)
                    /\ CursorRecords(rope, ns, c[1], pos, c[2])

\* Three leaves or more, the head two levels high or more, and a position
\* where a leaf starts: the two values of stick_end end in different leaves.
C29_Witness ==
    /\ err = NoErr
    /\ Len(node_iter(rope)) >= 3
    /\ head_of(rope).height >= 2
    /\ \E pos \in 1..(len_chars(rope) - 1) :
         /\ mut_cursor_at_char(rope, pos, TRUE).err = NoErr
         /\ mut_cursor_at_char(rope, pos, FALSE).err = NoErr
         /\ mut_cursor_at_char(rope, pos, TRUE).cursor[0].node
               # mut_cursor_at_char(rope, pos, FALSE).cursor[0].node
         /\ mut_cursor_at_char(rope, pos, TRUE).cursor[1].node
               # mut_cursor_at_char(rope, pos, FALSE).cursor[1].node

\* The debug_assert_eq! on the cursor at the end of insert, remove, replace.
CursorPanics ==
    {"insert: cursor position", "remove: cursor position", "replace: cursor position"}

\* C30: no insert, remove or replace ends with its assertion on the cursor
\* failed: where the operation reaches it, the cursor's global position is
\* min(pos, old len) + count_chars(text) after insert, range.start after
\* remove, and the clamped start + count_chars(content) after replace.
C30_CursorPostconditions ==
    err \notin CursorPanics

\* An insert of two scalars inside the text that ended without a panic with
\* two leaves more than before: the leaf was split, the text went into a
\* node of its own and the rest into another, and the head was raised to
\* its greatest height.
C30_Witness ==
    /\ err = NoErr
    /\ nops >= 2
    /\ last.op = "insert"
    /\ 0 < last.start
    /\ last.start < last.len
    /\ Len(last.text) = 2
    /\ Len(node_iter(rope)) >= 3
    /\ head_of(rope).height = MAX_HEIGHT + 1
    /\ to_string(rope) = Utf8(ref)

(***************************************************************************)
(* del_at_cursor                                                           *)
(***************************************************************************)

\* The panics of the loop of del_at_cursor: assert!(removed > 0) and the
\* dereference of a null or freed `node`.
DelLoopPanics ==
    {"del_at_cursor: removed == 0",
     "del_at_cursor: null pointer dereference",
     "del_at_cursor: use after free"}

\* The scalars s without those at [a, b).
Without(s, a, b) ==
    IF a >= b THEN s ELSE SubSeq(s, 1, a) \o SubSeq(s, b + 1, Len(s))

\* C31: del_at_cursor, called by remove and replace with a length that does
\* not pass the end of the rope, ends: no round of its loop removes nothing,
\* the hop to the next node never reaches null or a freed node, and when
\* remove returns, the rope holds what it held before without exactly the
\* end - start scalars behind position start.
C31_DelAtCursorRemovesLength ==
    [][/\ err' \notin DelLoopPanics
       /\ (last'.op = "remove" /\ err' = NoErr) =>
            \E e \in {Min(last'.end, len_chars(rope))} :
               \E n \in {IF last'.start < e THEN e - last'.start ELSE 0} :
                  /\ to_string(rope') = Utf8(Without(ref, last'.start, last'.start + n))
                  /\ len_chars(rope') = len_chars(rope) - n
                  /\ len_bytes(rope') = Len(to_string(rope'))]_vars

\* A remove of three scalars that left a leaf behind the head and freed a
\* node allocated before it: the loop went from leaf to leaf, unlinked
\* whole leaves and stopped in front of one it did not touch.
C31_Witness ==
    /\ err = NoErr
    /\ last.op = "remove"
    /\ Min(last.end, last.len) - last.start >= 3
    /\ len_chars(rope) = last.len - (Min(last.end, last.len) - last.start)
    /\ len_chars(rope) >= 1
    /\ Len(node_iter(rope)) >= 2
    /\ \E a \in DOMAIN rope.nodes : \E h \in 0..(a - 1) : h \notin DOMAIN rope.nodes

\* Every node that del_at_cursor unlinks while it removes `length` scalars
\* from node0 at offset_chars0 is, at that moment, not the node of the
\* cursor's level 0, and at every level below its height the node of the
\* cursor's entry points at it.
RECURSIVE UnlinksBehindCursor(_, _, _, _)
UnlinksBehindCursor(m, node0, offset_chars0, length) ==
    IF m.err # NoErr \/ length <= 0 THEN TRUE
    ELSE
    LET s == m.nodes[node0].nexts[0]
        at_end == offset_chars0 = s.skip_chars
        node == IF at_end THEN s.node ELSE node0
        offset_chars == IF at_end THEN 0 ELSE offset_chars0
    IN
    IF node \notin DOMAIN m.nodes THEN FALSE
    ELSE LET n == m.nodes[node]
             removed == Min(length, num_chars(n) - offset_chars)
             pairs == count_surrogate_pairs(n.str, offset_chars + removed)
                        - count_surrogate_pairs(n.str, offset_chars)
             trim == removed < num_chars(n) \/ is_head(m, node)
         IN /\ ~trim =>
                 /\ m.cursor[0].node # node
                 /\ \A i \in 0..(n.height - 1) :
                      /\ m.cursor[i].node \in DOMAIN m.nodes
                      /\ i < m.nodes[m.cursor[i].node].height
                      /\ m.nodes[m.cursor[i].node].nexts[i].node = node
            /\ UnlinksBehindCursor(
                    shrink_above(
                        IF trim THEN trim_node(m, node, offset_chars, removed, pairs)
                        ELSE unlink_node(m, node, removed, pairs),
                        n.height, removed, pairs),
                    IF trim THEN node ELSE n.nexts[0].node,
                    offset_chars, length - removed)

\* UnlinksBehindCursor for del_at_cursor under the cursor c.
DelUnlinksBehind(r, c, length) ==
    /\ c.err = NoErr
    /\ UnlinksBehindCursor(at_cursor(r, c, <<>>), c.cursor[0].node,
                           local_char_pos(c.cursor), length)

\* C32: a cursor built with stick_end = true rests at local offset 0 only
\* in the head; and for every remove the rope can take, every node that
\* del_at_cursor unlinks is not the cursor's level-0 node and is pointed at,
\* on every level below its height, by the node of the cursor's entry.
C32_StickyCursorPrecedesUnlinked ==
    err = NoErr =>
        \A start \in 0..len_chars(rope) :
            \E c \in {mut_cursor_at_char(rope, start, TRUE)} :
                /\ c.err = NoErr
                /\ (c.cursor[0].node # rope.head => local_char_pos(c.cursor) > 0)
                /\ \A end \in (start + 1)..len_chars(rope) :
                     DelUnlinksBehind(rope, c, end - start)

\* After a remove that freed a node: behind the head a node of height 1 and
\* behind that a node of height 2 with content, which a remove from the end
\* of the first can unlink through two different nodes of the cursor.
C32_Witness ==
    /\ err = NoErr
    /\ last.op = "remove" /\ last.start < last.end
    /\ \E a \in DOMAIN rope.nodes : \E h \in 0..(a - 1) : h \notin DOMAIN rope.nodes
    /\ \E ns \in {node_iter(rope)} :
         /\ Len(ns) >= 3
         /\ rope.nodes[ns[2]].height = 1
         /\ rope.nodes[ns[3]].height = 2
         /\ mut_cursor_at_char(rope, StartOf(rope, ns, 3), TRUE).cursor[0].node = ns[2]
         /\ mut_cursor_at_char(rope, StartOf(rope, ns, 3), TRUE).cursor[1].node = ns[1]

(***************************************************************************)
(* The split path of insert_at_cursor                                      *)
(***************************************************************************)

\* The bytes of the nodes ns[a..b] of r, one after the other.
RECURSIVE BytesOfNodes(_, _, _, _)
BytesOfNodes(r, ns, a, b) ==
    IF a > b THEN <<>> ELSE NodeBytes(r, ns[a]) \o BytesOfNodes(r, ns, a + 1, b)

\* s starts with p.
IsPrefix(p, s) == Len(p) <= Len(s) /\ SubSeq(s, 1, Len(p)) = p

\* The panics of the loop that cuts the text.
ChunkPanics ==
    {"insert_at_cursor: index out of bounds", "insert_at_cursor: empty chunk",
     "new_from_str: try_insert failed"}

\* From r to r2 the insert of text t at position pos put the k new nodes
\* ns2[i+1..i+k] behind the old node ns2[i]: that node kept what stood before
\* pos, the new nodes hold t and then what stood behind pos in it, the latter
\* in the last node alone.
SplitInto(r, r2, ns2, i, k, pos, t) ==
    LET e == ns2[i]
        kept == NodeBytes(r2, e)
        was == NodeBytes(r, e)
        rest == SubSeq(was, Len(kept) + 1, Len(was))
    IN /\ e \in DOMAIN r.nodes
       /\ \A j \in 1..Len(ns2) : (ns2[j] \notin DOMAIN r.nodes) <=> (j \in (i + 1)..(i + k))
       /\ IsPrefix(kept, was)
       /\ StartOf(r2, ns2, i) + count_chars(kept) = pos
       /\ BytesOfNodes(r2, ns2, i + 1, i + k) = t \o rest
       /\ rest # <<>> => NodeBytes(r2, ns2[i + k]) = rest
       /\ \A j \in (i + 1)..(i + k) :
            /\ NodeBytes(r2, ns2[j]) # <<>>
            /\ Len(NodeBytes(r2, ns2[j])) <= NODE_STR_SIZE
            /\ ValidUtf8(NodeBytes(r2, ns2[j]))

\* C33: the loop that cuts the inserted text never panics; and after an
\* insert that created nodes (the split path) the new nodes stand one after
\* the other behind the leaf the insert went to, each holds between 1 and
\* NODE_STR_SIZE bytes of whole scalars, together they hold the inserted
\* text followed by what stood behind the insert position in that leaf,
\* and that rest is in one node, the last of them.
C33_SplitPathChunks ==
    [][/\ err' \notin ChunkPanics
       /\ (last'.op = "insert" /\ err' = NoErr
             /\ DOMAIN rope'.nodes # DOMAIN rope.nodes) =>
            \E ns2 \in {node_iter(rope')} :
               \E k \in {Cardinality(DOMAIN rope'.nodes \ DOMAIN rope.nodes)} :
                  \E i \in 1..Len(ns2) :
                     SplitInto(rope, rope', ns2, i, k,
                               Min(last'.start, len_chars(rope)), Utf8(last'.text))]_vars

\* The second operation put a 2-byte and a 4-byte scalar between the two
\* scalars of the head's leaf: two nodes for the text and one for the rest.
C33_Witness ==
    /\ err = NoErr
    /\ nops = 2
    /\ last.op = "insert"
    /\ last.len = 2
    /\ last.start = 1
    /\ last.text = <<ScalarE, ScalarP>>
    /\ Len(node_iter(rope)) = 4
    /\ to_string(rope) = Utf8(ref)

(***************************************************************************)
(* The life of a node                                                      *)
(***************************************************************************)

\* The nodes of the rope r, the head with them; none if r was dropped.
Chain(r) == IF r.head = NULL THEN {} ELSE SeqToSet(node_iter(r))

\* The level-0 chain of r goes through allocated nodes only, through each
\* once, and ends at null; no pointer of a node of it, on any level, is on
\* an address that is not a node of the chain.
ChainIsLive(r) ==
    r.head # NULL =>
        \E ns \in {node_iter(r)} :
            /\ Len(ns) >= 1
            /\ r.nodes[ns[Len(ns)]].nexts[0].node = NULL
            /\ \A i, j \in 1..Len(ns) : i # j => ns[i] # ns[j]
            /\ \A i \in 1..Len(ns) :
                 \A l \in 0..(r.nodes[ns[i]].height - 1) :
                    r.nodes[ns[i]].nexts[l].node \in SeqToSet(ns) \cup {NULL}

\* The panics that stand for the use of a freed node.
FreedNodePanics ==
    {"cursor: dangling pointer", "update_offsets: invalid pointer",
     "insert_node_at: invalid pointer", "insert_at_cursor: dangling pointer",
     "del_at_cursor: invalid pointer", "del_at_cursor: use after free"}

\* C34: the allocated nodes are at every moment the nodes on the chains of
\* the ropes alive, each on one chain and once: a node that remove unlinks
\* is freed by it, a drop frees the nodes of its rope and no other, and no
\* node is allocated at an address in use.  No pointer of a remaining node
\* is on a freed node, and no operation uses one.
C34_NodesFreedOnce ==
    [][/\ err' \notin FreedNodePanics
       /\ err' = NoErr =>
            /\ ChainIsLive(rope')
            /\ ChainIsLive(other')
            /\ Chain(rope') \cap Chain(other') = {}
            /\ DOMAIN rope'.nodes = Chain(rope') \cup Chain(other')
            /\ (DOMAIN rope'.nodes \ DOMAIN rope.nodes) \cap (Chain(rope) \cup Chain(other)) = {}
       /\ last'.op = "drop_orig" =>
            DOMAIN rope'.nodes = (DOMAIN rope.nodes) \ Chain(rope)
       /\ last'.op = "drop_clone" =>
            DOMAIN rope'.nodes = (DOMAIN rope.nodes) \ Chain(other)]_vars

\* A remove on the original of a clone freed a node: the original has two
\* nodes or more left, the clone three or more, and an address below an
\* allocated one is free.
C34_Witness ==
    /\ err = NoErr
    /\ last.op = "mutate_orig"
    /\ Len(node_iter(rope)) >= 2
    /\ Len(node_iter(other)) >= 3
    /\ len_chars(rope) < len_chars(other)
    /\ \E a \in DOMAIN rope.nodes : \E h \in 0..(a - 1) : h \notin DOMAIN rope.nodes

(***************************************************************************)
(* The buffered op                                                         *)
(***************************************************************************)

\* The content of rope r after remove(start..end).
Removed(r, start, end) == to_string(RopeOf(remove(r, start, end)))

\* C35: when a non-empty delete [a, b) is pending and remove(s..e) comes
\* with s <= a <= e, the call does not panic, leaves the rope as it is and
\* makes the delete [s, b + (e - a)) the pending op; and the rope with that
\* one delete applied holds what it holds with [a, b) and then [s, e)
\* applied.
C35_DeleteMergesIntoDelete ==
    [][(/\ last'.op = "remove"
        /\ buf.op.kind = "Del" /\ ~op_is_empty(buf.op)
        /\ last'.start <= buf.op.start /\ buf.op.start <= last'.end) =>
          \E end \in {buf.op.end + (last'.end - buf.op.start)} :
             /\ buf'.err = NoErr
             /\ buf'.rope = buf.rope
             /\ buf'.op = [kind |-> "Del", ins_content |-> <<>>,
                           start |-> last'.start, end |-> end]
             /\ remove(buf.rope, last'.start, end).err = NoErr
             /\ Removed(buf.rope, last'.start, end)
                  = Removed(RopeOf(remove(buf.rope, buf.op.start, buf.op.end)),
                            last'.start, last'.end)]_vars

\* The second remove was merged into the first: the pending delete starts
\* where the second starts, is longer than it, lies inside the content, and
\* the rope of the buffer still holds the three scalars it was made from,
\* in more than one leaf.
C35_Witness ==
    /\ buf.err = NoErr
    /\ nops = 2
    /\ last.op = "remove"
    /\ last.start < last.end
    /\ buf.op.kind = "Del"
    /\ buf.op.start = last.start
    /\ buf.op.end > last.end
    /\ buf.op.end <= len_chars(buf.rope)
    /\ len_chars(buf.rope) = 3
    /\ Len(node_iter(buf.rope)) >= 2

\* The first n scalars of the bytes t (all of t if it has fewer).
RECURSIVE FirstChars(_, _)
FirstChars(t, n) ==
    IF n <= 0 \/ t = <<>> THEN <<>>
    ELSE SubSeq(t, 1, Utf8Width(t[1])) \o FirstChars(SubSeq(t, Utf8Width(t[1]) + 1, Len(t)), n - 1)

\* C36: when an insert of text t at a is pending and remove(s..e) comes
\* with e = a + count_chars(t) and s >= a, the call does not panic, leaves
\* the rope as it is, and the pending op becomes the insert at a of the
\* first s - a scalars of t with the range [a, s), nothing if s = a; and in
\* every state the pending text has as many scalars as its range is long.
C36_InsertTrimmedByDelete ==
    [][/\ (buf'.err = NoErr /\ buf'.op.kind = "Ins") =>
            count_chars(buf'.op.ins_content) = op_len(buf'.op)
       /\ (/\ last'.op = "remove"
           /\ buf.op.kind = "Ins" /\ ~op_is_empty(buf.op)
           /\ last'.end = buf.op.start + count_chars(buf.op.ins_content)
           /\ last'.end = buf.op.end
           /\ last'.start >= buf.op.start) =>
             /\ buf'.err = NoErr
             /\ buf'.rope = buf.rope
             /\ buf'.op.kind = "Ins"
             /\ buf'.op.start = buf.op.start
             /\ buf'.op.end = last'.start
             /\ buf'.op.ins_content
                  = FirstChars(buf.op.ins_content, last'.start - buf.op.start)
             /\ ValidUtf8(buf'.op.ins_content)
             /\ (last'.start = buf.op.start => op_is_empty(buf'.op))]_vars

\* The op a call hands to internal_push_op, and the buffered op it makes
\* when nothing is pending.
Incoming(l) ==
    IF l.op = "insert" THEN Op_Ins(l.start, Utf8(l.text)) ELSE Op_Del(l.start, l.end)

Pending(l) ==
    IF l.op = "insert"
    THEN [kind |-> "Ins", ins_content |-> Utf8(l.text),
          start |-> l.start, end |-> l.start + Len(l.text)]
    ELSE [kind |-> "Del", ins_content |-> <<>>, start |-> l.start, end |-> l.end]

\* C37: when an insert or remove comes that try_append does not merge with
\* the non-empty pending op, the call does not panic (the second try_append
\* does not fail), the rope of the buffer then holds what it held with the
\* pending op applied, and the incoming op is pending as it came; so the
\* content the buffer stands for is the one before the call with the
\* incoming edit applied to it.
C37_FlushThenPending ==
    [][(/\ last'.op \in {"insert", "remove"}
        /\ ~op_is_empty(buf.op)
        /\ ~try_append(buf.op, Incoming(last')).ok) =>
          /\ buf'.err = NoErr
          /\ to_string(buf'.rope) = Logical(buf)
          /\ len_chars(buf'.rope) = count_chars(Logical(buf))
          /\ buf'.op = Pending(last')
          /\ Logical(buf')
               = IF last'.op = "insert"
                 THEN StrInsert(Logical(buf), last'.start, Utf8(last'.text))
                 ELSE StrRemove(Logical(buf), last'.start, last'.end)]_vars

\* The second call, an insert inside the content, did not merge with the
\* pending insert: that one is in the rope, which has grown and has more
\* than one leaf, and the second is pending as it came.
C37_Witness ==
    /\ buf.err = NoErr
    /\ nops = 2
    /\ last.op = "insert"
    /\ last.start < last.len
    /\ buf.op = Pending(last)
    /\ len_chars(buf.rope) > 3
    /\ len_chars(buf.rope) = last.len
    /\ Len(node_iter(buf.rope)) >= 2

(***************************************************************************)
(* remove_chars                                                            *)
(***************************************************************************)

\* The bytes a gap buffer holds.
LeafBytes(g) == start_bytes(g) \o end_bytes(g)

\* remove_chars(pos, n) took g to g2 and returned ret: the scalars of g at
\* [pos, pos + n) are gone, ret is the number of their bytes, and the rest
\* is as it was.
RemovedChars(g, g2, ret, pos, n) ==
    \E a \in {Len(FirstChars(LeafBytes(g), pos))} :
       \E b \in {Len(FirstChars(LeafBytes(g), pos + n))} :
          /\ LeafBytes(g2) = SubSeq(LeafBytes(g), 1, a)
                               \o SubSeq(LeafBytes(g), b + 1, Len(LeafBytes(g)))
          /\ ret = b - a
          /\ len_bytes_gb(g2) = len_bytes_gb(g) - ret

\* The gap of g stands at scalar pos.
GapAt(g, pos) ==
    /\ g.gap_start_chars = pos
    /\ count_chars(start_bytes(g)) = pos

\* C38 as stated: remove_chars(pos, n) with pos + n inside the leaf does not
\* panic, removes the n scalars at [pos, pos + n), returns the number of
\* their bytes, leaves the rest as it was, and leaves the gap at pos.
C38_RemoveCharsLeavesGapAtPos ==
    [][last'.op = "remove_chars" =>
         \E x \in {remove_chars(leaf, last'.start, last'.end - last'.start)} :
            /\ x.err = NoErr /\ err' = NoErr
            /\ leaf' = x.str
            /\ RemovedChars(leaf, leaf', x.ret, last'.start, last'.end - last'.start)
            /\ GapAt(leaf', last'.start)]_vars

\* C38: remove_chars(pos, n) with pos + n inside the leaf does not panic,
\* removes the n scalars at [pos, pos + n), returns the number of their
\* bytes and leaves the rest as it was, the range before the gap, behind it
\* or on both sides; for n >= 1 the gap then stands at pos, and for n = 0
\* the buffer, its gap too, is as it was.
C38_RemoveCharsRemovesRange ==
    [][last'.op = "remove_chars" =>
         \E x \in {remove_chars(leaf, last'.start, last'.end - last'.start)} :
            /\ x.err = NoErr /\ err' = NoErr
            /\ leaf' = x.str
            /\ RemovedChars(leaf, leaf', x.ret, last'.start, last'.end - last'.start)
            /\ IF last'.end > last'.start
               THEN GapAt(leaf', last'.start)
               ELSE leaf' = leaf /\ x.ret = 0]_vars

\* remove_chars took scalars from both sides of the gap and left text on
\* both sides of it.
C38_Witness ==
    /\ err = NoErr
    /\ last.op = "remove_chars"
    /\ last.start < last.gap
    /\ last.gap < last.end
    /\ leaf.gap_start_chars = last.start
    /\ start_bytes(leaf) # <<>>
    /\ end_bytes(leaf) # <<>>

(***************************************************************************)
(* char_to_byte_idx by chunks                                              *)
(***************************************************************************)

\* ByteChunk for usize: size() is the width of a word, 4 or 8 bytes.
ChunkSizes == {4, 8}

max_acc(size) == (256 \div size) - 1

\* sum_bytes of chunk.bitand(splat(0xc0)).cmp_eq_byte(0x80): the
\* continuation bytes of a chunk.
chunk_continuations(chunk) ==
    Cardinality({k \in 1..Len(chunk) : ~IsStartByte(chunk[k])})

\* A loop over the chunks that goes on while char_count <= char_idx, as the
\* loops over single bytes do.
RECURSIVE middle_loop_eager(_, _, _, _, _, _, _)
middle_loop_eager(middle, size, char_idx, i, acc, acc_i, char_count) ==
    IF i < (Len(middle) \div size) /\ char_count <= char_idx
    THEN middle_loop_eager(middle, size, char_idx, i + 1, 0, 0,
            char_count + size
              - chunk_continuations(SubSeq(middle, i * size + 1, (i + 1) * size)))
    ELSE <<i, char_count>>

\* The loop of char_to_byte_idx_inner over the aligned chunks:
\* <<chunks consumed, scalars counted>>. acc is the sum of the accumulator.
RECURSIVE middle_loop(_, _, _, _, _, _, _)
middle_loop(middle, size, char_idx, i, acc, acc_i, char_count) ==
    IF i < (Len(middle) \div size) /\ (char_count + size * (acc_i + 1)) <= char_idx
    THEN LET acc1 == acc + chunk_continuations(SubSeq(middle, i * size + 1, (i + 1) * size))
             acc_i1 == acc_i + 1
         IN IF acc_i1 = max_acc(size) \/ (char_count + size * (acc_i1 + 1)) >= char_idx
            THEN middle_loop(middle, size, char_idx, i + 1, 0, 0,
                             char_count + (size * acc_i1) - acc1)
            ELSE middle_loop(middle, size, char_idx, i + 1, acc1, acc_i1, char_count)
    ELSE <<i, char_count + (size * acc_i) - acc>>

\* char_to_byte_idx_inner::<T> with chunks of size bytes, when align_to
\* gives a prefix of start_len bytes.
char_to_byte_idx_inner(text, char_idx, size, start_len) ==
    LET start == SubSeq(text, 1, start_len)
        middle == SubSeq(text, start_len + 1,
                         start_len + ((Len(text) - start_len) \div size) * size)
        r1 == char_to_byte_loop(start, char_idx, 0, 0)
        r2 == middle_loop(middle, size, char_idx, 0, 0, 0, r1[2])
        byte_count2 == r1[1] + r2[1] * size
        end == SubSeq(text, byte_count2 + 1, Len(text))
        r3 == char_to_byte_loop(end, char_idx, 0, r2[2])
        byte_count == byte_count2 + r3[1]
        char_count == r3[2]
    IN IF byte_count = Len(text) /\ char_count <= char_idx
       THEN byte_count
       ELSE byte_count - 1

\* The prefixes align_to may give for text: fewer bytes than a chunk, as the
\* address of the text has it, or all of the text.
StartLens(text, size) ==
    {k \in 0..Len(text) : k < size \/ k = Len(text)}

(***************************************************************************)
(* SpecIdx: the index conversions on strings                               *)
(***************************************************************************)

MaxIdxChars == 4

ScalarH == <<227, 129, 130>>

IdxScalars == {ScalarA, ScalarE, ScalarH, ScalarP}

RECURSIVE IdxStrings(_)
IdxStrings(n) ==
    IF n = 0 THEN {<<>>}
    ELSE IdxStrings(n - 1)
           \cup {Append(t, c) : t \in {u \in IdxStrings(n - 1) : Len(u) = n - 1},
                                c \in IdxScalars}

InitIdx ==
    /\ ref \in IdxStrings(MaxIdxChars)
    /\ rope = new_with_rng(<<>>) /\ err = NoErr
    /\ nops = 0 /\ last = NoOp /\ other = NoRope /\ res = NoRes
    /\ buf = with_rope(new_with_rng(<<>>)) /\ borrows = 0 /\ leaf = GapBuffer_new

\* One call on the string drawn at the start.
IdxStep(name, i, r) ==
    /\ last = NoOp
    /\ last' = [op |-> name, start |-> i, end |-> i, text |-> ref,
                len |-> Len(Utf8(ref)), undo |-> FALSE]
    /\ res' = r
    /\ UNCHANGED <<rope, err, ref, nops, other, buf, borrows, leaf>>

\* One round of the loop of check_counts, for i in 0..=num_chars
CheckCounts ==
    \E i \in 0..Len(ref), size \in ChunkSizes :
       \E start_len \in StartLens(Utf8(ref), size) :
          IdxStep("check_counts", i,
                  [byte_offset |-> char_to_byte_idx_inner(Utf8(ref), i, size, start_len),
                   end_offset |-> str_chars_to_bytes_rev(Utf8(ref), Len(ref) - i),
                   size |-> size, start_len |-> start_len])

\* char_to_byte_idx with an index at or past the number of scalars
PastTheEnd ==
    \E i \in Len(ref)..(3 * MaxIdxChars), size \in ChunkSizes :
       \E start_len \in StartLens(Utf8(ref), size) :
          IdxStep("past_the_end", i,
                  [byte_offset |-> char_to_byte_idx_inner(Utf8(ref), i, size, start_len),
                   end_offset |-> 0,
                   size |-> size, start_len |-> start_len])

NextIdx == CheckCounts \/ PastTheEnd

SpecIdx == InitIdx /\ [][NextIdx]_vars

\* C39: for a valid UTF-8 string s and every i in 0..=count_chars(s), the
\* byte offset char_to_byte_idx(s, i) is a scalar boundary with exactly i
\* scalars in front of it, and str_chars_to_bytes_rev(s, count_chars(s) - i)
\* does not panic and gives s.len() minus that offset; for every
\* i >= count_chars(s), char_to_byte_idx(s, i) is s.len(); whatever the size
\* of the chunks and the alignment of the string.
C39_IndexConversionsAgree ==
    /\ count_chars(Utf8(ref)) = Len(ref)
    /\ last.op = "check_counts" =>
          /\ res.byte_offset >= 0 /\ res.byte_offset <= Len(Utf8(ref))
          /\ is_char_boundary(Utf8(ref), res.byte_offset)
          /\ count_chars(Slice(Utf8(ref), 0, res.byte_offset)) = last.start
          /\ res.byte_offset = Len(FirstChars(Utf8(ref), last.start))
          /\ res.end_offset = Len(Utf8(ref)) - res.byte_offset
          /\ str_chars_to_bytes(Utf8(ref), last.start) = res.byte_offset
    /\ last.op = "past_the_end" =>
          /\ res.byte_offset = Len(Utf8(ref))
          /\ str_chars_to_bytes(Utf8(ref), last.start) = res.byte_offset

\* The conversion went over an aligned chunk and stopped inside a scalar of
\* several bytes behind it, in a string of scalars of 1, 2, 3 and 4 bytes.
C39_Witness ==
    /\ last.op = "check_counts"
    /\ {ref[k] : k \in 1..Len(ref)} = IdxScalars
    /\ res.size = 4
    /\ res.start_len = 1
    /\ res.byte_offset > res.start_len + res.size
    /\ res.byte_offset < Len(Utf8(ref))
    /\ res.end_offset > 1

====
